---- MODULE Spec2Model ----
(***************************************************************************)
(* A model of jedi/parser/representation.py: the syntax tree (leaves and   *)
(* nodes held in an arena of objects addressed by identity), the pure      *)
(* queries on it (get_code, get_defined_names, filter_after_position,      *)
(* scope_names_generator) and the linking of flow chains (set_next and the *)
(* parent setter).                                                         *)
(*                                                                         *)
(* Text is a sequence of one-character strings, a position is <<line,      *)
(* column>>, an object reference is its index in heap and None is 0.       *)
(***************************************************************************)
EXTENDS Integers, Sequences, FiniteSets, TLC

VARIABLES
    heap,     \* the arena: heap[i] is the object with identity i
    root,     \* the object the tree was built into (0 when there is no tree)
    source,   \* the text of the token stream the leaves were cut from
    prev,     \* the arena as it was before the last operation
    ret       \* the last operation: its name, receiver, argument, result, exception

vars == <<heap, root, source, prev, ret>>

None == 0

(***************************************************************************)
(* Text and positions                                                      *)
(***************************************************************************)
RECURSIVE ConcatAll(_)
ConcatAll(ss) ==
    IF ss = <<>> THEN <<>> ELSE Head(ss) \o ConcatAll(Tail(ss))

\* Python's tuple comparison of two positions.
PosLess(p, q) == p[1] < q[1] \/ (p[1] = q[1] /\ p[2] < q[2])
PosLeq(p, q) == p = q \/ PosLess(p, q)

(***************************************************************************)
(* Objects                                                                 *)
(***************************************************************************)
LeafClasses == {"Name", "Operator", "Keyword", "Literal", "Whitespace"}

BlankObj ==
    [cls |-> "", type |-> "", value |-> <<>>, prefix |-> <<>>,
     start_pos |-> <<0, 0>>, children |-> <<>>, parent |-> None,
     next |-> None, previous |-> None, params |-> <<>>,
     tfpdef |-> None, default |-> None, stars |-> 0,
     inputs |-> <<>>, set_vars |-> <<>>, values |-> <<>>, keys |-> <<>>,
     name |-> None, imports |-> <<>>]

IsLeaf(h, i) == h[i].cls \in LeafClasses

\* _Leaf.__init__
NewLeaf(cls, value, start_pos, prefix) ==
    [BlankObj EXCEPT !.cls = cls, !.value = value, !.start_pos = start_pos,
                     !.prefix = prefix]

\* is_node(node, *symbol_names)
is_node(h, i, symbol_names) ==
    h[i].cls = "Node" /\ h[i].type \in symbol_names

\* Simple.__init__: every child's parent becomes the new object.
SimpleInit(h, cls, type, children) ==
    LET id == Len(h) + 1
        obj == [BlankObj EXCEPT !.cls = cls, !.type = type, !.children = children]
        kids == {children[k] : k \in 1..Len(children)}
    IN [i \in 1..id |->
          IF i = id THEN obj
          ELSE IF i \in kids THEN [h[i] EXCEPT !.parent = id]
          ELSE h[i]]

(***************************************************************************)
(* The parse. A fragment is a piece of the arena under construction: the   *)
(* objects of one subtree in creation order (leaves in token order, a node *)
(* after its children), its root last, with references counted from the    *)
(* start of the fragment.                                                  *)
(***************************************************************************)
LeafT(cls, value, prefix) == <<NewLeaf(cls, value, <<0, 0>>, prefix)>>

\* A fragment moved d places up the arena.
Shift(frag, d) ==
    [i \in 1..Len(frag) |->
        [frag[i] EXCEPT
            !.children = [k \in 1..Len(frag[i].children) |-> frag[i].children[k] + d],
            !.params = [k \in 1..Len(frag[i].params) |-> frag[i].params[k] + d],
            !.inputs = [k \in 1..Len(frag[i].inputs) |-> frag[i].inputs[k] + d],
            !.set_vars = [k \in 1..Len(frag[i].set_vars) |-> frag[i].set_vars[k] + d],
            !.values = [k \in 1..Len(frag[i].values) |-> frag[i].values[k] + d],
            !.keys = [k \in 1..Len(frag[i].keys) |-> frag[i].keys[k] + d],
            !.imports = [k \in 1..Len(frag[i].imports) |-> frag[i].imports[k] + d],
            !.next = IF frag[i].next = None THEN None ELSE frag[i].next + d,
            !.previous = IF frag[i].previous = None THEN None ELSE frag[i].previous + d,
            !.tfpdef = IF frag[i].tfpdef = None THEN None ELSE frag[i].tfpdef + d,
            !.default = IF frag[i].default = None THEN None ELSE frag[i].default + d,
            !.name = IF frag[i].name = None THEN None ELSE frag[i].name + d,
            !.parent = IF frag[i].parent = None THEN None ELSE frag[i].parent + d]]

RECURSIVE SumLen(_, _)
SumLen(frags, k) == IF k = 0 THEN 0 ELSE Len(frags[k]) + SumLen(frags, k - 1)

\* A node over the subtrees kids: the subtrees one after the other, then the
\* node itself, made by Simple.__init__.
NodeT(cls, type, kids) ==
    SimpleInit(ConcatAll([k \in 1..Len(kids) |-> Shift(kids[k], SumLen(kids, k - 1))]),
               cls, type, [k \in 1..Len(kids) |-> SumLen(kids, k)])

\* The text the tokenizer has read when it reaches the value of leaf i.
TextBefore(h, i) ==
    ConcatAll([j \in 1..i |->
        IF ~IsLeaf(h, j) THEN <<>>
        ELSE IF j = i THEN h[j].prefix ELSE h[j].prefix \o h[j].value])

\* The position after text, for a tokenizer that started at FirstPos: the line
\* counts the newlines read, the column the characters since the last one.
FirstPos == <<1, 0>>
PosAfter(text) ==
    LET nl == {k \in 1..Len(text) : text[k] = "\n"}
        last == IF nl = {} THEN 0 ELSE CHOOSE k \in nl : \A m \in nl : m <= k
    IN <<FirstPos[1] + Cardinality(nl),
         (IF nl = {} THEN FirstPos[2] ELSE 0) + Len(text) - last>>

\* The finished tree: every leaf at the position of its token.
BuildTree(frag) ==
    [heap |-> [i \in 1..Len(frag) |->
                 IF IsLeaf(frag, i)
                 THEN [frag[i] EXCEPT !.start_pos = PosAfter(TextBefore(frag, i))]
                 ELSE frag[i]],
     id |-> Len(frag)]

\* The token stream as text: every leaf's prefix and value, in creation order.
RECURSIVE TokenText(_, _)
TokenText(h, i) ==
    IF i > Len(h) THEN <<>>
    ELSE (IF IsLeaf(h, i) THEN h[i].prefix \o h[i].value ELSE <<>>)
         \o TokenText(h, i + 1)

(***************************************************************************)
(* Ancestry, read off the parent references alone                          *)
(***************************************************************************)
RECURSIVE IsUnder(_, _, _)
IsUnder(h, i, n) ==
    i = n \/ (h[i].parent # None /\ IsUnder(h, h[i].parent, n))

\* The text of the leaves below n, in the order the tokenizer produced them.
RECURSIVE LeafText(_, _, _)
LeafText(h, n, i) ==
    IF i > Len(h) THEN <<>>
    ELSE (IF IsLeaf(h, i) /\ IsUnder(h, i, n) THEN h[i].prefix \o h[i].value ELSE <<>>)
         \o LeafText(h, n, i + 1)

(***************************************************************************)
(* get_code                                                                *)
(***************************************************************************)
\* A get_code that forgets the prefix of a leaf.
LeafGetCodeNoPrefix(h, i) == h[i].value

\* _Leaf.get_code
LeafGetCode(h, i) == h[i].prefix \o h[i].value

\* Simple.get_code
RECURSIVE get_code(_, _), get_code_all(_, _)
get_code(h, i) ==
    IF IsLeaf(h, i) THEN LeafGetCode(h, i) ELSE get_code_all(h, h[i].children)
get_code_all(h, cs) ==
    IF cs = <<>> THEN <<>> ELSE get_code(h, Head(cs)) \o get_code_all(h, Tail(cs))

(***************************************************************************)
(* The last operation                                                      *)
(***************************************************************************)
NoRet == [op |-> "none", self |-> None, arg |-> <<>>, val |-> <<>>, exc |-> ""]
Ret(op, self, arg, val) == [op |-> op, self |-> self, arg |-> arg, val |-> val, exc |-> ""]
Raise(op, self, arg, exc) == [op |-> op, self |-> self, arg |-> arg, val |-> <<>>, exc |-> exc]

(***************************************************************************)
(* Trees of tokens (get_code)                                              *)
(***************************************************************************)
MaxLeaves == 3

\* The tokens a leaf of a generic tree is drawn from: an identifier, an
\* operator after a blank, and a newline after a comment.
TreeTokens ==
    {LeafT("Name", <<"a", "b">>, <<>>),
     LeafT("Operator", <<"=">>, <<" ">>),
     LeafT("Whitespace", <<"\n">>, <<"#">>)}

\* Forest(n): the sequences of trees holding n leaves together; Tree(n), n > 1,
\* is a node over at least two trees.
RECURSIVE Forest(_, _), Tree(_)
Tree(n) ==
    IF n = 1 THEN TreeTokens
    ELSE {NodeT("Node", "expr", f) : f \in Forest(n, n - 1)}
Forest(n, first) ==
    IF n = 0 THEN {<<>>}
    ELSE UNION {{<<e>> \o r : e \in Tree(k), r \in Forest(n - k, n - k)} :
                k \in 1..(IF first < n THEN first ELSE n)}

InitTree ==
    \E n \in 1..MaxLeaves : \E t \in Tree(n) :
        LET b == BuildTree(t)
        IN /\ heap = b.heap
           /\ root = b.id
           /\ source = TokenText(b.heap, 1)
           /\ prev = b.heap
           /\ ret = NoRet

\* node.get_code() on any object of the tree.
GetCode ==
    /\ root # None
    /\ \E i \in DOMAIN heap :
          ret' = Ret("get_code", i, <<>>, get_code(heap, i))
    /\ prev' = heap
    /\ UNCHANGED <<heap, root, source>>

NextTree == GetCode

SpecTree == InitTree /\ [][NextTree]_vars


(***************************************************************************)
(* Comparing an object with a string (==, !=)                              *)
(***************************************************************************)
\* Operator.__eq__ and Keyword.__eq__ compare the value with the string; every
\* other class compares by identity, and no object is a string.
EqStr(h, i, str) ==
    IF h[i].cls \in {"Operator", "Keyword"} THEN h[i].value = str ELSE FALSE

\* Operator.__ne__ and Keyword.__ne__
NeStr(h, i, str) ==
    IF h[i].cls \in {"Operator", "Keyword"} THEN h[i].value # str ELSE TRUE

(***************************************************************************)
(* Statement.get_defined_names                                             *)
(***************************************************************************)
\* seq[::2]
EveryOther(seq) == [k \in 1..((Len(seq) + 1) \div 2) |-> seq[2 * k - 1]]

\* An unpacking that keeps the separators.
TupleElementsAll(children) == children

\* current.children[::2]: the elements of a tuple display, without the commas.
TupleElements(children) == EveryOther(children)

\* A power branch that looks at the first trailer instead of the last.
PowerNamesFirstTrailer(h, current) ==
    LET trailer == h[current].children[2]
    IN IF EqStr(h, h[trailer].children[1], <<".">>)
       THEN <<h[trailer].children[2]>>
       ELSE <<>>

\* check_tuple on a power node: unless it is an operation (**), the name after
\* the '.' of the last trailer.
PowerNames(h, current) ==
    LET cs == h[current].children
        n == Len(cs)
    IN IF NeStr(h, cs[n - 1], <<"*", "*">>)
       THEN LET trailer == cs[n]
            IN IF EqStr(h, h[trailer].children[1], <<".">>)
               THEN <<h[trailer].children[2]>>
               ELSE <<>>
       ELSE <<>>

\* check_tuple
RECURSIVE check_tuple(_, _), check_tuple_all(_, _)
check_tuple(h, current) ==
    IF is_node(h, current, {"testlist_star_expr", "testlist_comp"})
    THEN check_tuple_all(h, TupleElements(h[current].children))
    ELSE IF is_node(h, current, {"atom"})
    THEN check_tuple(h, h[current].children[2])
    ELSE IF is_node(h, current, {"power"})
    THEN PowerNames(h, current)
    ELSE <<current>>
check_tuple_all(h, cs) ==
    IF cs = <<>> THEN <<>>
    ELSE check_tuple(h, Head(cs)) \o check_tuple_all(h, Tail(cs))

\* An operator test that takes every assignment operator ending in '='.
IsAssignEndsWith(h, op) ==
    Len(h[op].value) > 0 /\ h[op].value[Len(h[op].value)] = "="

\* self.children[i + 1].value == '='
IsAssign(h, op) == h[op].value = <<"=">>

\* A range that stops after the first target.
LastTargetFirstOnly(n) == IF n >= 3 THEN 1 ELSE 0

\* range(0, len(self.children) - 2, 2), counted from 1: the last index it can
\* reach is len(self.children) - 2.
LastTarget(n) == n - 2

\* Statement.get_defined_names: the targets before each '=', in order.
RECURSIVE StmtNamesFrom(_, _, _)
StmtNamesFrom(h, stmt, i) ==
    LET cs == h[stmt].children
    IN IF i > LastTarget(Len(cs)) THEN <<>>
       ELSE (IF IsAssign(h, cs[i + 1]) THEN check_tuple(h, cs[i]) ELSE <<>>)
            \o StmtNamesFrom(h, stmt, i + 2)

StatementGetDefinedNames(h, stmt) == StmtNamesFrom(h, stmt, 1)

(***************************************************************************)
(* Statements                                                              *)
(***************************************************************************)
MaxNames == 3

Nm(v) == LeafT("Name", <<v>>, <<>>)
Op(v) == LeafT("Operator", v, <<>>)
OpSp(v) == LeafT("Operator", v, <<" ">>)
Lit(v) == LeafT("Literal", <<v>>, <<>>)
Trailer(kids) == NodeT("Node", "trailer", kids)
Power(kids) == NodeT("Node", "power", kids)

AttrT == Power(<<Nm("a"), Trailer(<<Op(<<".">>), Nm("b")>>)>>)
SubscriptT == Power(<<Nm("a"), Trailer(<<Op(<<"[">>), Lit("0"), Op(<<"]">>)>>)>>)
SubAttrT ==
    Power(<<Nm("a"), Trailer(<<Op(<<"[">>), Lit("0"), Op(<<"]">>)>>),
            Trailer(<<Op(<<".">>), Nm("b")>>)>>)
AttrSubT ==
    Power(<<Nm("a"), Trailer(<<Op(<<".">>), Nm("b")>>),
            Trailer(<<Op(<<"[">>), Lit("0"), Op(<<"]">>)>>)>>)
ParenT(t) == NodeT("Node", "atom", <<Op(<<"(">>), t, Op(<<")">>)>>)
ListT(t) == NodeT("Node", "atom", <<Op(<<"[">>), t, Op(<<"]">>)>>)
EmptyListT == NodeT("Node", "atom", <<Op(<<"[">>), Op(<<"]">>)>>)

\* e1, e2, ..., en
RECURSIVE Commas(_)
Commas(f) ==
    IF Len(f) <= 1 THEN f ELSE <<f[1], Op(<<",">>)>> \o Commas(Tail(f))

\* The elements of a tuple display, and a target standing alone.
InnerElems == {Nm("x"), AttrT, SubscriptT}
AloneElems == {SubAttrT, AttrSubT, ParenT(Nm("y")), ListT(Nm("y")), EmptyListT}

\* Elem(n): a tuple element binding n targets; ElemForest(n, first): the
\* sequences of elements binding n targets, the first at most `first` of them.
RECURSIVE Elem(_), ElemForest(_, _)
Elem(n) ==
    IF n = 1 THEN InnerElems
    ELSE {ParenT(NodeT("Node", "testlist_comp", Commas(f))) : f \in ElemForest(n, n - 1)}
ElemForest(n, first) ==
    IF n = 0 THEN {<<>>}
    ELSE UNION {{<<e>> \o r : e \in Elem(k), r \in ElemForest(n - k, n - k)} :
                k \in 1..(IF first < n THEN first ELSE n)}

Target(n) ==
    IF n = 1 THEN InnerElems
    ELSE Elem(n) \cup {NodeT("Node", "testlist_star_expr", Commas(f)) :
                         f \in ElemForest(n, n - 1)}

\* The target segments of a chained assignment binding n targets together.
RECURSIVE Chain(_)
Chain(n) ==
    IF n = 0 THEN {<<>>}
    ELSE UNION {{<<t>> \o r : t \in Target(k), r \in Chain(n - k)} : k \in 1..n}

RhsTerms ==
    {LeafT("Name", <<"r">>, <<" ">>),
     NodeT("Node", "testlist_star_expr",
           <<LeafT("Name", <<"r">>, <<" ">>), Op(<<",">>), Lit("2")>>)}

ExprStmtT(kids) == NodeT("ExprStmt", "expr_stmt", kids)

\* t1 = t2 = ... = rhs
RECURSIVE AssignKids(_, _)
AssignKids(chain, rhs) ==
    IF chain = <<>> THEN <<rhs>>
    ELSE <<Head(chain), OpSp(<<"=">>)>> \o AssignKids(Tail(chain), rhs)

AssignStmts ==
    {ExprStmtT(AssignKids(c, rhs)) :
        c \in UNION {Chain(n) : n \in 1..MaxNames} \cup {<<t>> : t \in AloneElems},
        rhs \in RhsTerms}

\* x += r, a.b -= r, ...: an augmented assignment has one target.
AugStmts ==
    {ExprStmtT(<<t, OpSp(o), rhs>>) :
        t \in {Nm("x"), AttrT, SubscriptT},
        o \in {<<"+", "=">>, <<"-", "=">>},
        rhs \in RhsTerms}

\* An expression alone, and a comparison.
BareStmts ==
    {ExprStmtT(<<e>>) : e \in RhsTerms \cup {AttrT}}
    \cup {ExprStmtT(<<Nm("x"), OpSp(o), rhs>>) :
            o \in {<<"=", "=">>, <<"<", "=">>}, rhs \in RhsTerms}

Statements == AssignStmts \cup AugStmts \cup BareStmts

InitStmt ==
    \E t \in Statements :
        LET b == BuildTree(t)
        IN /\ heap = b.heap
           /\ root = b.id
           /\ source = TokenText(b.heap, 1)
           /\ prev = b.heap
           /\ ret = NoRet

\* stmt.get_defined_names() on the statement.
StmtGetDefinedNames ==
    /\ root # None /\ heap[root].cls = "ExprStmt"
    /\ ret' = Ret("get_defined_names", root, <<>>,
                  StatementGetDefinedNames(heap, root))
    /\ prev' = heap
    /\ UNCHANGED <<heap, root, source>>

NextStmt == StmtGetDefinedNames

SpecStmt == InitStmt /\ [][NextStmt]_vars

\* C1: get_code() of any object is the text (prefix then value) of the leaves
\* below it in left-to-right order, and get_code() of the root is the source
\* text the leaves were cut from.
C1_GetCodeRoundTrip ==
    ret.op = "get_code" =>
        /\ ret.val = LeafText(heap, ret.self, 1)
        /\ (ret.self = root => ret.val = source)

\* get_code() was called on the root of a tree with a nested node, and the
\* source has a leaf with a non-empty prefix.
C1_Witness ==
    /\ ret.op = "get_code" /\ ret.self = root
    /\ ~IsLeaf(heap, root)
    /\ \E k \in 1..Len(heap[root].children) : ~IsLeaf(heap, heap[root].children[k])
    /\ \E i \in DOMAIN heap : IsLeaf(heap, i) /\ heap[i].prefix # <<>>
    /\ ret.val = source /\ Len(source) > 3

(***************************************************************************)
(* Positions of objects, names of scopes, parameters                       *)
(***************************************************************************)
\* _Leaf.start_pos (stored), Simple.start_pos (the first child's) and
\* Param.start_pos (the tfpdef's).
RECURSIVE start_pos(_, _)
start_pos(h, i) ==
    IF IsLeaf(h, i) THEN h[i].start_pos
    ELSE IF h[i].cls = "Param" THEN start_pos(h, h[i].tfpdef)
    ELSE start_pos(h, h[i].children[1])

\* ClassOrFunc.name, Function.name: the first token after `class` or `def`.
ScopeName(h, scope) == h[scope].children[2]

\* Function._params: the parameters between the parentheses, as
\* [tfpdef, default, stars] in source order.
RECURSIVE ParamsFrom(_, _, _)
ParamsFrom(h, cs, i) ==
    IF i > Len(cs) THEN <<>>
    ELSE LET starred == EqStr(h, cs[i], <<"*">>) \/ EqStr(h, cs[i], <<"*", "*">>)
             stars == IF starred THEN Len(h[cs[i]].value) ELSE 0
             at == IF starred THEN i + 1 ELSE i
             hasDefault == at + 1 <= Len(cs) /\ EqStr(h, cs[at + 1], <<"=">>)
         IN <<[tfpdef |-> cs[at],
               default |-> IF hasDefault THEN cs[at + 2] ELSE None,
               stars |-> stars]>>
            \o ParamsFrom(h, cs, IF hasDefault THEN at + 4 ELSE at + 2)

\* A function that takes whatever stands between the parentheses for one
\* parameter.
ParamsWhole(h, func) ==
    LET all == h[h[func].children[3]].children
    IN IF Len(all) = 2 THEN <<>>
       ELSE <<[tfpdef |-> all[2], default |-> None, stars |-> 0]>>

_params(h, func) ==
    LET all == h[h[func].children[3]].children
        node == SubSeq(all, 2, Len(all) - 1)
    IN IF node = <<>> THEN <<>>
       ELSE IF is_node(h, node[1], {"typedargslist"})
       THEN ParamsFrom(h, h[node[1]].children, 1)
       ELSE <<[tfpdef |-> node[1], default |-> None, stars |-> 0]>>

\* Param.get_name, of a tfpdef
TfpdefName(h, tfpdef) ==
    IF is_node(h, tfpdef, {"tfpdef"}) THEN h[tfpdef].children[1] ELSE tfpdef

\* Param.get_name
ParamGetName(h, param) == TfpdefName(h, h[param].tfpdef)

\* Function.__init__ after Scope.__init__ has made the function the last
\* object of h: self.params = self._params(), and Param.__init__ makes each
\* Param the parent of its name. The Params take the identities before the
\* function's.
FunctionInit(h) ==
    LET f == Len(h)
        ps == _params(h, f)
        n == Len(ps)
        paramOf(i) == {k \in 1..n : TfpdefName(h, ps[k].tfpdef) = i}
    IN [i \in 1..(f + n) |->
          IF i < f
          THEN IF paramOf(i) # {}
               THEN [h[i] EXCEPT !.parent = f - 1 + (CHOOSE k \in paramOf(i) : TRUE)]
               ELSE IF h[i].parent = f THEN [h[i] EXCEPT !.parent = f + n]
               ELSE h[i]
          ELSE IF i < f + n
          THEN [BlankObj EXCEPT !.cls = "Param",
                                !.tfpdef = ps[i - f + 1].tfpdef,
                                !.default = ps[i - f + 1].default,
                                !.stars = ps[i - f + 1].stars,
                                !.parent = f + n]
          ELSE [h[f] EXCEPT !.params = [k \in 1..n |-> f - 1 + k]]]

(***************************************************************************)
(* get_defined_names of imports and scopes                                 *)
(***************************************************************************)
\* Import.get_defined_names
ImportGetDefinedNames(h, imp) ==
    LET cs == h[imp].children
    IN IF EqStr(h, cs[1], <<"i", "m", "p", "o", "r", "t">>)
       THEN SubSeq(cs, 2, Len(cs))
       ELSE <<cs[Len(cs)]>>

\* isinstance(s, (ExprStmt, Import, KeywordStatement))
StatementClasses == {"ExprStmt", "Import", "KeywordStatement"}

\* s.get_defined_names() of a statement of a simple_stmt. KeywordStatement
\* (a Simple) has no get_defined_names: the call raises AttributeError.
StmtDefinedNames(h, s) ==
    IF h[s].cls = "ExprStmt" THEN StatementGetDefinedNames(h, s)
    ELSE IF h[s].cls = "Import" THEN ImportGetDefinedNames(h, s)
    ELSE <<>>

\* The children Scope.get_defined_names walks: those of the suite when the
\* last child is one.
ScopeBody(h, scope) ==
    LET cs == h[scope].children
    IN IF is_node(h, cs[Len(cs)], {"suite"}) THEN h[cs[Len(cs)]].children ELSE cs

\* Scope.get_defined_names, one child of the scope.
ScopeNamesOfChild(h, c) ==
    IF is_node(h, c, {"simple_stmt"})
    THEN ConcatAll([k \in 1..Len(h[c].children) |->
            IF h[h[c].children[k]].cls \in StatementClasses
            THEN StmtDefinedNames(h, h[c].children[k]) ELSE <<>>])
    ELSE IF h[c].cls \in {"Function", "Class"}
    THEN <<ScopeName(h, c)>>
    ELSE <<>>

\* Scope.get_defined_names
ScopeGetDefinedNames(h, scope) ==
    ConcatAll([k \in 1..Len(ScopeBody(h, scope)) |->
        ScopeNamesOfChild(h, ScopeBody(h, scope)[k])])

\* Scope.get_defined_names raises when a simple_stmt of the scope holds a
\* KeywordStatement.
ScopeGetDefinedNamesRaises(h, scope) ==
    \E k \in 1..Len(ScopeBody(h, scope)) :
        LET c == ScopeBody(h, scope)[k]
        IN /\ is_node(h, c, {"simple_stmt"})
           /\ \E j \in 1..Len(h[c].children) :
                 h[h[c].children[j]].cls = "KeywordStatement"

\* Function.get_defined_names
FunctionGetDefinedNames(h, func) ==
    ScopeGetDefinedNames(h, func)
    \o [k \in 1..Len(h[func].params) |-> ParamGetName(h, h[func].params[k])]

\* Base.get_parent_until(classes), classes not empty, reverse=False,
\* include_current=True
RECURSIVE get_parent_until(_, _, _)
get_parent_until(h, scope, classes) ==
    IF h[scope].parent = None \/ h[scope].cls \in classes THEN scope
    ELSE get_parent_until(h, h[scope].parent, classes)

\* The scope whose get_defined_names() a call on `scope` ends in:
\* Flow.get_defined_names() delegates to the enclosing class or function.
NamesOwner(h, scope) ==
    IF h[scope].cls = "Flow" THEN get_parent_until(h, scope, {"Class", "Function"})
    ELSE scope

\* scope.get_defined_names(), by the class of the scope.
GetDefinedNames(h, scope) ==
    IF h[NamesOwner(h, scope)].cls = "Function"
    THEN FunctionGetDefinedNames(h, NamesOwner(h, scope))
    ELSE ScopeGetDefinedNames(h, NamesOwner(h, scope))

GetDefinedNamesRaises(h, scope) == ScopeGetDefinedNamesRaises(h, NamesOwner(h, scope))

(***************************************************************************)
(* filter_after_position, scope_names_generator                            *)
(***************************************************************************)
\* position=None
NoPosition == <<>>

\* A filter that also keeps a name starting at the position.
KeepsBeforeOrAt(h, n, position) ==
    start_pos(h, n)[1] # None /\ PosLeq(start_pos(h, n), position)

\* n.start_pos[0] is not None and n.start_pos < position
KeepsBefore(h, n, position) ==
    start_pos(h, n)[1] # None /\ PosLess(start_pos(h, n), position)

\* A filter that keeps the names of the lines before the position's.
FilterByLine(h, names, position) ==
    IF position = NoPosition THEN names
    ELSE LET Keep(n) == start_pos(h, n)[1] < position[1]
         IN SelectSeq(names, Keep)

\* filter_after_position
filter_after_position(h, names, position) ==
    IF position = NoPosition THEN names
    ELSE LET Keep(n) == KeepsBefore(h, n, position)
         IN SelectSeq(names, Keep)

\* A generator that goes on to the enclosing scopes.
RECURSIVE ScopeNamesOutward(_, _, _)
ScopeNamesOutward(h, scope, position) ==
    <<[scope |-> scope,
       names |-> filter_after_position(h, GetDefinedNames(h, scope), position)]>>
    \o (IF h[scope].parent = None THEN <<>>
        ELSE LET up == get_parent_until(h, h[scope].parent,
                                        {"Class", "Function", "Flow", "SubModule"})
             IN ScopeNamesOutward(h, up, position))

\* Class.scope_names_generator, Function.scope_names_generator,
\* Flow.scope_names_generator: the entries yielded.
scope_names_generator(h, scope, position) ==
    <<[scope |-> scope,
       names |-> filter_after_position(h, GetDefinedNames(h, scope), position)]>>

(***************************************************************************)
(* Modules                                                                 *)
(***************************************************************************)
MaxItems == 2

Kw(v, prefix) == LeafT("Keyword", v, prefix)
Newline == LeafT("Whitespace", <<"\n">>, <<>>)
EndMarker == LeafT("Whitespace", <<>>, <<>>)
Indent(d) == [k \in 1..d |-> " "]
SimpleStmtT(stmt) == NodeT("Node", "simple_stmt", <<stmt, Newline>>)
SuiteT(body) == NodeT("Node", "suite", <<Newline>> \o body)

\* a = 1
AssignLine(d) ==
    SimpleStmtT(ExprStmtT(<<LeafT("Name", <<"a">>, Indent(d)), OpSp(<<"=">>),
                            LeafT("Literal", <<"1">>, <<" ">>)>>))
\* pass
PassLine(d) ==
    SimpleStmtT(NodeT("KeywordStatement", "pass_stmt",
                      <<Kw(<<"p", "a", "s", "s">>, Indent(d))>>))
\* import m
ImportLine(d) ==
    SimpleStmtT(NodeT("Import", "import_name",
                      <<Kw(<<"i", "m", "p", "o", "r", "t">>, Indent(d)),
                        LeafT("Name", <<"m">>, <<" ">>)>>))
\* if c: followed by a = 1 on the next line
FlowT(d) ==
    NodeT("Flow", "if_stmt",
          <<Kw(<<"i", "f">>, Indent(d)), LeafT("Name", <<"c">>, <<" ">>),
            Op(<<":">>), SuiteT(<<AssignLine(d + 1)>>)>>)
\* def f(p): and its body
FuncT(d, body) ==
    FunctionInit(
        NodeT("Function", "funcdef",
              <<Kw(<<"d", "e", "f">>, Indent(d)), LeafT("Name", <<"f">>, <<" ">>),
                NodeT("Node", "parameters", <<Op(<<"(">>), Nm("p"), Op(<<")">>)>>),
                Op(<<":">>), SuiteT(body)>>))
\* class C: and its body
ClassT(d, body) ==
    NodeT("Class", "classdef",
          <<Kw(<<"c", "l", "a", "s", "s">>, Indent(d)),
            LeafT("Name", <<"C">>, <<" ">>), Op(<<":">>), SuiteT(body)>>)

\* Item(n, d): an assignment (n = 1) or a function or class holding n - 1 items,
\* at indentation d. Body(n, d): the bodies of n items; a body may end with any
\* of the one-line statements or an if.
LastItems(d) == {AssignLine(d), PassLine(d), ImportLine(d), FlowT(d)}

RECURSIVE Item(_, _), Body(_, _)
Item(n, d) ==
    IF n = 1 THEN {AssignLine(d)}
    ELSE {FuncT(d, b) : b \in Body(n - 1, d + 1)}
         \cup {ClassT(d, b) : b \in Body(n - 1, d + 1)}
Body(n, d) ==
    IF n = 1 THEN {<<e>> : e \in LastItems(d)}
    ELSE {<<e>> : e \in Item(n, d)}
         \cup UNION {{<<e>> \o r : e \in Item(k, d), r \in Body(n - k, d)} :
                     k \in 1..(n - 1)}

Modules ==
    {NodeT("SubModule", "file_input", b \o <<EndMarker>>) :
        b \in UNION {Body(n, 0) : n \in 1..MaxItems}}

InitScope ==
    \E t \in Modules :
        LET b == BuildTree(t)
        IN /\ heap = b.heap
           /\ root = b.id
           /\ source = TokenText(b.heap, 1)
           /\ prev = b.heap
           /\ ret = NoRet

Scopes(h) == {i \in DOMAIN h : h[i].cls \in {"SubModule", "Class", "Function", "Flow"}}

\* The positions a caller asks about: the start and the third column of every
\* line, and of the line after the last.
QueryPositions(h) ==
    LET lines == {h[i].start_pos[1] : i \in {j \in DOMAIN h : IsLeaf(h, j)}}
    IN {<<l, c>> : l \in lines \cup {Cardinality(lines) + 1}, c \in {0, 2}}

\* scope.get_defined_names() on any scope of the module.
ScopeDefinedNames ==
    /\ root # None
    /\ \E s \in Scopes(heap) :
          ret' = IF GetDefinedNamesRaises(heap, s)
                 THEN Raise("scope.get_defined_names", s, <<>>, "AttributeError")
                 ELSE Ret("scope.get_defined_names", s, <<>>, GetDefinedNames(heap, s))
    /\ prev' = heap
    /\ UNCHANGED <<heap, root, source>>

\* filter_after_position(names, position) on the defined names of a scope.
FilterAfterPosition ==
    /\ root # None
    /\ \E s \in Scopes(heap), pos \in QueryPositions(heap) \cup {NoPosition} :
          /\ ~GetDefinedNamesRaises(heap, s)
          /\ ret' = Ret("filter_after_position", None,
                        [names |-> GetDefinedNames(heap, s), position |-> pos],
                        filter_after_position(heap, GetDefinedNames(heap, s), pos))
    /\ prev' = heap
    /\ UNCHANGED <<heap, root, source>>

\* scope.scope_names_generator(position), run to its end, on a class, a function
\* or a flow.
ScopeNamesGenerator ==
    /\ root # None
    /\ \E s \in Scopes(heap), pos \in QueryPositions(heap) \cup {NoPosition} :
          /\ heap[s].cls \in {"Class", "Function", "Flow"}
          /\ ret' = IF GetDefinedNamesRaises(heap, s)
                    THEN Raise("scope_names_generator", s, pos, "AttributeError")
                    ELSE Ret("scope_names_generator", s, pos,
                             scope_names_generator(heap, s, pos))
    /\ prev' = heap
    /\ UNCHANGED <<heap, root, source>>

NextScope == ScopeDefinedNames \/ FilterAfterPosition \/ ScopeNamesGenerator

SpecScope == InitScope /\ [][NextScope]_vars

(***************************************************************************)
(* Flow chains                                                             *)
(***************************************************************************)
MaxFlows == 2

\* Flow.__init__: no next, no previous, no parent.
NewFlow == [BlankObj EXCEPT !.cls = "Flow"]

\* The arena of the chains: a function and a class that can own flows, then
\* the flows.
Owners == {1, 2}
Flows(h) == {i \in DOMAIN h : h[i].cls = "Flow"}

\* The segment at which the recursion of set_next stops, the one without a
\* next; None when following next from f never ends.
RECURSIVE ChainTail(_, _, _)
ChainTail(h, f, seen) ==
    IF h[f].next = None THEN f
    ELSE IF h[f].next \in seen \cup {f} THEN None
    ELSE ChainTail(h, h[f].next, seen \cup {f})

\* The segments the parent setter of f visits.
RECURSIVE Reach(_, _, _)
Reach(h, f, seen) ==
    IF f = None \/ f \in seen THEN seen ELSE Reach(h, h[f].next, seen \cup {f})

\* A parent setter that stops at f.
SetParentOnlySelf(h, f, value) ==
    [i \in DOMAIN h |-> IF i = f THEN [h[i] EXCEPT !.parent = value] ELSE h[i]]

\* Flow.parent setter: the parent of f and of every segment after it.
SetParentOf(h, f, value) ==
    [i \in DOMAIN h |->
        IF i \in Reach(h, f, {}) THEN [h[i] EXCEPT !.parent = value] ELSE h[i]]

InitFlow ==
    /\ heap = <<[BlankObj EXCEPT !.cls = "Function"], [BlankObj EXCEPT !.cls = "Class"]>>
              \o [k \in 1..MaxFlows |-> NewFlow]
    /\ root = None
    /\ source = <<>>
    /\ prev = heap
    /\ ret = NoRet

\* self.set_next(seg)
SetNext ==
    /\ root = None
    /\ \E self \in Flows(heap), seg \in Flows(heap) :
          LET t == ChainTail(heap, self, {})
              linked == [heap EXCEPT ![t].next = seg]
              parented == SetParentOf(linked, seg, heap[t].parent)
          IN IF t = None
             THEN /\ heap' = heap
                  /\ ret' = Raise("set_next", self, seg, "RecursionError")
             ELSE IF ChainTail(linked, seg, {}) = None
             THEN /\ heap' = parented
                  /\ ret' = Raise("set_next", self, seg, "RecursionError")
             ELSE /\ heap' = [parented EXCEPT ![seg].previous = t]
                  /\ ret' = Ret("set_next", self, seg, seg)
    /\ prev' = heap
    /\ UNCHANGED <<root, source>>

\* flow.parent = value
SetParent ==
    /\ root = None
    /\ \E f \in Flows(heap), value \in Owners \cup {None} :
          /\ heap' = SetParentOf(heap, f, value)
          /\ ret' = IF ChainTail(heap, f, {}) = None
                    THEN Raise("parent", f, value, "RecursionError")
                    ELSE Ret("parent", f, value, None)
    /\ prev' = heap
    /\ UNCHANGED <<root, source>>

NextFlow == SetNext \/ SetParent

SpecFlow == InitFlow /\ [][NextFlow]_vars

(***************************************************************************)
(* Flow.get_defined_names over a chain of segments                         *)
(***************************************************************************)
MaxSegments == 3

\* Flow.__init__ on the object Simple.__init__ has just made: the inputs and
\* the set_vars are the children at the given places.
FlowInit(h, inputsAt, setVarsAt) ==
    [h EXCEPT ![Len(h)].inputs = [k \in 1..Len(inputsAt) |-> h[Len(h)].children[inputsAt[k]]],
              ![Len(h)].set_vars = [k \in 1..Len(setVarsAt) |-> h[Len(h)].children[setVarsAt[k]]]]

\* if c: / elif c:
IfSegT(body) ==
    FlowInit(NodeT("Flow", "if_stmt",
                   <<Kw(<<"i", "f">>, <<>>),
                     ExprStmtT(<<LeafT("Name", <<"c">>, <<" ">>)>>),
                     Op(<<":">>), SuiteT(body)>>),
             <<2>>, <<>>)
\* else:
ElseSegT(body) ==
    FlowInit(NodeT("Flow", "if_stmt",
                   <<Kw(<<"e", "l", "s", "e">>, <<>>), Op(<<":">>), SuiteT(body)>>),
             <<>>, <<>>)
\* with c as w:
WithSegT(body) ==
    FlowInit(NodeT("Flow", "with_stmt",
                   <<Kw(<<"w", "i", "t", "h">>, <<>>),
                     ExprStmtT(<<LeafT("Name", <<"c">>, <<" ">>)>>),
                     Kw(<<"a", "s">>, <<" ">>), LeafT("Name", <<"w">>, <<" ">>),
                     Op(<<":">>), SuiteT(body)>>),
             <<2>>, <<4>>)
\* while v = c: an input statement that binds a name
WhileSegT(body) ==
    FlowInit(NodeT("Flow", "while_stmt",
                   <<Kw(<<"w", "h", "i", "l", "e">>, <<>>),
                     ExprStmtT(<<LeafT("Name", <<"v">>, <<" ">>), OpSp(<<"=">>),
                                 LeafT("Name", <<"c">>, <<" ">>)>>),
                     Op(<<":">>), SuiteT(body)>>),
             <<2>>, <<>>)

SegmentBodies == {<<AssignLine(1)>>, <<PassLine(1)>>}
HeadSegments ==
    UNION {{IfSegT(b), ElseSegT(b), WithSegT(b), WhileSegT(b)} : b \in SegmentBodies}
LaterSegments == UNION {{IfSegT(b), ElseSegT(b)} : b \in SegmentBodies}

\* The chains of n segments, as sequences of segments.
RECURSIVE SegmentSeqs(_)
SegmentSeqs(n) ==
    IF n = 1 THEN {<<s>> : s \in HeadSegments}
    ELSE {c \o <<s>> : c \in SegmentSeqs(n - 1), s \in LaterSegments}

\* The segments one after the other in the arena, each the next of the one
\* before it, as head.set_next(segment) links them.
ChainT(segs) ==
    LET all == ConcatAll([k \in 1..Len(segs) |-> Shift(segs[k], SumLen(segs, k - 1))])
        rootOf == [k \in 1..Len(segs) |-> SumLen(segs, k)]
        at(i) == {k \in 1..Len(segs) : rootOf[k] = i}
    IN [i \in 1..Len(all) |->
          IF at(i) = {} THEN all[i]
          ELSE LET k == CHOOSE k \in at(i) : TRUE
               IN [all[i] EXCEPT
                     !.next = IF k < Len(segs) THEN rootOf[k + 1] ELSE None,
                     !.previous = IF k > 1 THEN rootOf[k - 1] ELSE None]]

Chains == {ChainT(c) : c \in UNION {SegmentSeqs(n) : n \in 1..MaxSegments}}

\* The head of the chain: the first flow of the arena.
ChainHead(h) == CHOOSE f \in Flows(h) : \A g \in Flows(h) : f <= g

InitChain ==
    \E t \in Chains :
        LET b == BuildTree(t)
        IN /\ heap = b.heap
           /\ root = ChainHead(b.heap)
           /\ source = TokenText(b.heap, 1)
           /\ prev = b.heap
           /\ ret = NoRet

\* The names of the input statements of a flow.
InputNames(h, f) ==
    ConcatAll([k \in 1..Len(h[f].inputs) |-> StatementGetDefinedNames(h, h[f].inputs[k])])

\* A flow that forgets the segments after it.
FlowNamesOwnOnly(h, f) ==
    h[f].set_vars \o InputNames(h, f) \o ScopeGetDefinedNames(h, f)

\* Flow.get_defined_names(is_internal_call=True)
RECURSIVE FlowNamesInternal(_, _)
FlowNamesInternal(h, f) ==
    h[f].set_vars \o InputNames(h, f)
    \o (IF h[f].next # None THEN FlowNamesInternal(h, h[f].next) ELSE <<>>)
    \o ScopeGetDefinedNames(h, f)

\* The call raises when Scope.get_defined_names raises on a segment.
FlowNamesInternalRaises(h, f) ==
    \E g \in Reach(h, f, {}) : ScopeGetDefinedNamesRaises(h, g)

\* flow.get_defined_names(is_internal_call=True) on a segment of the chain.
FlowGetDefinedNames ==
    /\ root # None
    /\ \E f \in Flows(heap) :
          ret' = IF FlowNamesInternalRaises(heap, f)
                 THEN Raise("flow.get_defined_names", f, <<>>, "AttributeError")
                 ELSE Ret("flow.get_defined_names", f, <<>>, FlowNamesInternal(heap, f))
    /\ prev' = heap
    /\ UNCHANGED <<heap, root, source>>

NextChain == FlowGetDefinedNames

SpecChain == InitChain /\ [][NextChain]_vars

(***************************************************************************)
(* Functions and their parameters                                          *)
(***************************************************************************)
MaxParams == 4

\* The kinds of parameter: a, a: t, b=1, *args, **kw.
ParamKinds == {"plain", "annotated", "default", "star", "starstar"}

ParamT(kind) ==
    IF kind = "plain" THEN <<Nm("a")>>
    ELSE IF kind = "annotated"
    THEN <<NodeT("Node", "tfpdef", <<Nm("a"), Op(<<":">>), LeafT("Name", <<"t">>, <<" ">>)>>)>>
    ELSE IF kind = "default" THEN <<Nm("b"), Op(<<"=">>), Lit("1")>>
    ELSE IF kind = "star" THEN <<Op(<<"*">>), Nm("r")>>
    ELSE <<Op(<<"*", "*">>), Nm("k")>>

\* Parameter lists of n parameters: at most one *args, **kw only at the end.
KindSeqs(n) ==
    {ks \in [1..n -> ParamKinds] :
        /\ Cardinality({k \in 1..n : ks[k] = "star"}) <= 1
        /\ \A k \in 1..n : ks[k] = "starstar" => k = n}

\* The children of the typedargslist: the parameters with ',' between them,
\* and a ',' at the end if trailing.
RECURSIVE ArgsKids(_, _, _)
ArgsKids(ks, k, trailing) ==
    IF k > Len(ks) THEN <<>>
    ELSE ParamT(ks[k])
         \o (IF k < Len(ks) \/ trailing THEN <<LeafT("Operator", <<",">>, <<>>)>> ELSE <<>>)
         \o ArgsKids(ks, k + 1, trailing)

\* ( ... ): nothing, the one name or tfpdef, or a typedargslist.
ParametersT(ks, trailing) ==
    NodeT("Node", "parameters",
          <<Op(<<"(">>)>>
          \o (IF Len(ks) = 0 THEN <<>>
              ELSE IF Len(ArgsKids(ks, 1, trailing)) = 1 THEN ArgsKids(ks, 1, trailing)
              ELSE <<NodeT("Node", "typedargslist", ArgsKids(ks, 1, trailing))>>)
          \o <<Op(<<")">>)>>)

\* def f( ... ): a = 1
FuncWithParamsT(ks, trailing) ==
    FunctionInit(
        NodeT("Function", "funcdef",
              <<Kw(<<"d", "e", "f">>, <<>>), LeafT("Name", <<"f">>, <<" ">>),
                ParametersT(ks, trailing), Op(<<":">>), SuiteT(<<AssignLine(1)>>)>>))

FunctionsWithParams ==
    {FuncWithParamsT(<<>>, FALSE)}
    \cup {FuncWithParamsT(ks, tr) :
            ks \in UNION {KindSeqs(n) : n \in 1..MaxParams}, tr \in {FALSE, TRUE}}

InitParams ==
    \E t \in FunctionsWithParams :
        LET b == BuildTree(t)
        IN /\ heap = b.heap
           /\ root = b.id
           /\ source = TokenText(b.heap, 1)
           /\ prev = b.heap
           /\ ret = NoRet

\* list.index: the place of x in seq, counted from 0.
IndexOf(seq, x) ==
    (CHOOSE k \in 1..Len(seq) : seq[k] = x /\ \A j \in 1..(k - 1) : seq[j] # x) - 1

\* Param.position_nr
position_nr(h, param) == IndexOf(h[h[param].parent].params, param)

\* function.params
ReadParams ==
    /\ root # None
    /\ heap[root].cls = "Function"
    /\ ret' = Ret("params", root, <<>>, heap[root].params)
    /\ prev' = heap
    /\ UNCHANGED <<heap, root, source>>

\* param.position_nr
PositionNr ==
    /\ root # None
    /\ \E p \in {i \in DOMAIN heap : heap[i].cls = "Param"} :
          ret' = Ret("position_nr", p, <<>>, position_nr(heap, p))
    /\ prev' = heap
    /\ UNCHANGED <<heap, root, source>>

NextParams == ReadParams \/ PositionNr

SpecParams == InitParams /\ [][NextParams]_vars

(***************************************************************************)
(* Array                                                                   *)
(***************************************************************************)
MaxAdds == 2

\* Array.NOARRAY (None), TUPLE, LIST, DICT, SET
NOARRAY == "None"
TUPLE == "tuple"
LIST == "list"
DICT == "dict"
SET == "set"
ArrayTypes == {NOARRAY, TUPLE, LIST, DICT, SET}

\* Array.__init__: the type given, no values, no keys.
NewArray(arr_type) == [BlankObj EXCEPT !.cls = "Array", !.type = arr_type]

\* The statements a caller adds.
NewStatement == [BlankObj EXCEPT !.cls = "Statement"]
StatementPool(h) == {i \in DOMAIN h : h[i].cls = "Statement"}

InitArray ==
    \E t \in ArrayTypes :
        /\ heap = <<NewArray(t), NewStatement, NewStatement>>
        /\ root = 1
        /\ source = <<>>
        /\ prev = heap
        /\ ret = NoRet

\* An add_statement that leaves the type alone.
add_statement_untyped(h, arr, statement, is_key) ==
    IF is_key
    THEN [h EXCEPT ![statement].parent = arr,
                   ![arr].keys = Append(h[arr].keys, statement)]
    ELSE [h EXCEPT ![statement].parent = arr,
                   ![arr].values = Append(h[arr].values, statement)]

\* Array.add_statement
add_statement(h, arr, statement, is_key) ==
    IF is_key
    THEN [h EXCEPT ![statement].parent = arr,
                   ![arr].type = DICT,
                   ![arr].keys = Append(h[arr].keys, statement)]
    ELSE [h EXCEPT ![statement].parent = arr,
                   ![arr].values = Append(h[arr].values, statement)]

\* zip(self.keys, self.values)
Zip(a, b) ==
    [k \in 1..(IF Len(a) < Len(b) THEN Len(a) ELSE Len(b)) |-> <<a[k], b[k]>>]

\* array.add_statement(statement, is_key)
AddStatement ==
    /\ root # None /\ heap[root].cls = "Array"
    /\ Len(heap[root].values) + Len(heap[root].keys) < MaxAdds
    /\ \E st \in StatementPool(heap), is_key \in BOOLEAN :
          /\ heap' = add_statement(heap, root, st, is_key)
          /\ ret' = Ret("add_statement", root, [statement |-> st, is_key |-> is_key], None)
    /\ prev' = heap
    /\ UNCHANGED <<root, source>>

\* array[key]: a negative key counts from the end.
GetItem ==
    /\ root # None /\ heap[root].cls = "Array"
    /\ \E key \in (0 - 1)..MaxAdds :
          LET n == Len(heap[root].values)
              at == IF key < 0 THEN key + n ELSE key
          IN ret' = IF heap[root].type = DICT
                    THEN Raise("__getitem__", root, key, "TypeError")
                    ELSE IF at < 0 \/ at >= n
                    THEN Raise("__getitem__", root, key, "IndexError")
                    ELSE Ret("__getitem__", root, key, heap[root].values[at + 1])
    /\ prev' = heap
    /\ UNCHANGED <<heap, root, source>>

\* iter(array)
Iter ==
    /\ root # None /\ heap[root].cls = "Array"
    /\ ret' = IF heap[root].type = DICT
              THEN Raise("__iter__", root, <<>>, "TypeError")
              ELSE Ret("__iter__", root, <<>>, heap[root].values)
    /\ prev' = heap
    /\ UNCHANGED <<heap, root, source>>

\* array.items()
Items ==
    /\ root # None /\ heap[root].cls = "Array"
    /\ ret' = IF heap[root].type # DICT
              THEN Raise("items", root, <<>>, "TypeError")
              ELSE Ret("items", root, <<>>, Zip(heap[root].keys, heap[root].values))
    /\ prev' = heap
    /\ UNCHANGED <<heap, root, source>>

NextArray == AddStatement \/ GetItem \/ Iter \/ Items

SpecArray == InitArray /\ [][NextArray]_vars

(***************************************************************************)
(* Scope.get_statement_for_position                                        *)
(***************************************************************************)
\* An end_pos that follows the first child.
RECURSIVE EndOfFirst(_, _)
EndOfFirst(h, i) ==
    IF IsLeaf(h, i) THEN <<h[i].start_pos[1], h[i].start_pos[2] + Len(h[i].value)>>
    ELSE EndOfFirst(h, h[i].children[1])

\* _Leaf.end_pos, Simple.end_pos
RECURSIVE end_pos(_, _)
end_pos(h, i) ==
    IF IsLeaf(h, i) THEN <<h[i].start_pos[1], h[i].start_pos[2] + Len(h[i].value)>>
    ELSE end_pos(h, h[i].children[Len(h[i].children)])

\* s.start_pos <= pos <= s.end_pos
Contains(h, s, pos) == PosLeq(start_pos(h, s), pos) /\ PosLeq(pos, end_pos(h, s))

ScopeClasses == {"SubModule", "Class", "Function", "Flow"}

\* Scope._search_in_scope(typ): scan
RECURSIVE scan(_, _, _)
scan(h, children, classes) ==
    ConcatAll([k \in 1..Len(children) |->
        IF h[children[k]].cls \in classes THEN <<children[k]>>
        ELSE IF is_node(h, children[k], {"suite"}) \/ is_node(h, children[k], {"simple_stmt"})
        THEN scan(h, h[children[k]].children, classes)
        ELSE <<>>])

\* Scope.subscopes, Scope.returns
subscopes(h, scope) == scan(h, h[scope].children, ScopeClasses)
returns(h, scope) == scan(h, h[scope].children, {"ReturnStmt"})

\* Scope.statements: the statements of the simple_stmt children of the scope.
statements(h, scope) ==
    ConcatAll([k \in 1..Len(h[scope].children) |->
        IF is_node(h, h[scope].children[k], {"simple_stmt"})
        THEN SelectSeq(h[h[scope].children[k]].children,
                       LAMBDA st : h[st].cls \in StatementClasses)
        ELSE <<>>])

\* checks: the statements (asserts, imports and decorators are empty after
\* construction), the returns of a function, the inputs of a flow.
checks(h, scope) ==
    statements(h, scope)
    \o (IF h[scope].cls = "Function" THEN returns(h, scope) ELSE <<>>)
    \o (IF h[scope].cls = "Flow" THEN h[scope].inputs ELSE <<>>)

\* Scope.get_statement_for_position: the statement returned, None when the
\* method falls off its end.
RECURSIVE get_statement_for_position(_, _, _), FlowWalk(_, _, _),
          CheckFrom(_, _, _, _), SubscopeFrom(_, _, _, _)
FlowWalk(h, s, pos) ==
    IF get_statement_for_position(h, s, pos) # None \/ h[s].next = None
    THEN get_statement_for_position(h, s, pos)
    ELSE FlowWalk(h, h[s].next, pos)
CheckFrom(h, cs, i, pos) ==
    IF i > Len(cs) THEN None
    ELSE IF h[cs[i]].cls = "Flow"
    THEN IF FlowWalk(h, cs[i], pos) # None THEN FlowWalk(h, cs[i], pos)
         ELSE CheckFrom(h, cs, i + 1, pos)
    ELSE IF Contains(h, cs[i], pos) THEN cs[i]
    ELSE CheckFrom(h, cs, i + 1, pos)
SubscopeFrom(h, ss, i, pos) ==
    IF i > Len(ss) THEN None
    ELSE IF Contains(h, ss[i], pos) /\ get_statement_for_position(h, ss[i], pos) # None
    THEN get_statement_for_position(h, ss[i], pos)
    ELSE SubscopeFrom(h, ss, i + 1, pos)
get_statement_for_position(h, scope, pos) ==
    IF CheckFrom(h, checks(h, scope), 1, pos) # None
    THEN CheckFrom(h, checks(h, scope), 1, pos)
    ELSE SubscopeFrom(h, subscopes(h, scope), 1, pos)

\* The module of a parse, or a chain of flows on its own.
InitPos == InitScope \/ InitChain

\* The positions asked about: three columns of every line, the input of a flow
\* among them.
StatementPositions(h) ==
    {<<l, c>> : l \in {h[i].start_pos[1] : i \in {j \in DOMAIN h : IsLeaf(h, j)}},
                c \in {0, 2, 3}}

\* scope.get_statement_for_position(pos)
StatementForPosition ==
    /\ root # None
    /\ \E s \in Scopes(heap), pos \in StatementPositions(heap) :
          ret' = Ret("get_statement_for_position", s, pos,
                     get_statement_for_position(heap, s, pos))
    /\ prev' = heap
    /\ UNCHANGED <<heap, root, source>>

NextPos == StatementForPosition

SpecPos == InitPos /\ [][NextPos]_vars

(***************************************************************************)
(* _Leaf.next_sibling, _Leaf.prev_sibling                                  *)
(***************************************************************************)
\* Two objects compare equal: leaves of one class with one value.
SameValue(h, a, b) == h[a].cls = h[b].cls /\ h[a].value = h[b].value

\* The places of the children a loop `if child == self` would stop at.
PlacesByValue(h, leaf) ==
    LET cs == h[h[leaf].parent].children
    IN {CHOOSE i \in 1..Len(cs) :
            /\ SameValue(h, cs[i], leaf)
            /\ \A j \in 1..(i - 1) : ~SameValue(h, cs[j], leaf)}

\* The places i of enumerate(self.parent.children) with `child is self`.
PlacesOf(h, leaf) ==
    LET cs == h[h[leaf].parent].children
    IN {i \in 1..Len(cs) : cs[i] = leaf}

\* _Leaf.next_sibling
next_sibling(h, leaf) ==
    LET cs == h[h[leaf].parent].children
    IN IF PlacesOf(h, leaf) = {} THEN None
       ELSE LET i == CHOOSE i \in PlacesOf(h, leaf) : \A j \in PlacesOf(h, leaf) : i <= j
            IN IF i + 1 <= Len(cs) THEN cs[i + 1] ELSE None

\* _Leaf.prev_sibling
prev_sibling(h, leaf) ==
    LET cs == h[h[leaf].parent].children
    IN IF PlacesOf(h, leaf) = {} THEN None
       ELSE LET i == CHOOSE i \in PlacesOf(h, leaf) : \A j \in PlacesOf(h, leaf) : i <= j
            IN IF i = 1 THEN None ELSE cs[i - 1]

Leaves(h) == {i \in DOMAIN h : IsLeaf(h, i)}

\* leaf.next_sibling(); a leaf without parent has no parent.children.
NextSibling ==
    /\ root # None
    /\ \E leaf \in Leaves(heap) :
          ret' = IF heap[leaf].parent = None
                 THEN Raise("next_sibling", leaf, <<>>, "AttributeError")
                 ELSE Ret("next_sibling", leaf, <<>>, next_sibling(heap, leaf))
    /\ prev' = heap
    /\ UNCHANGED <<heap, root, source>>

\* leaf.prev_sibling()
PrevSibling ==
    /\ root # None
    /\ \E leaf \in Leaves(heap) :
          ret' = IF heap[leaf].parent = None
                 THEN Raise("prev_sibling", leaf, <<>>, "AttributeError")
                 ELSE Ret("prev_sibling", leaf, <<>>, prev_sibling(heap, leaf))
    /\ prev' = heap
    /\ UNCHANGED <<heap, root, source>>

NextSiblings == NextSibling \/ PrevSibling

SpecSiblings == InitTree /\ [][NextSiblings]_vars

(***************************************************************************)
(* Simple.move                                                             *)
(***************************************************************************)
MaxMoves == 1

\* A move that shifts the leaves among the children and goes no deeper.
VisitsDirect(h, node, leaf) ==
    Cardinality({k \in 1..Len(h[node].children) : h[node].children[k] = leaf})

\* How often node.move reaches a leaf: once for every way down from node to the
\* leaf through children.
RECURSIVE Visits(_, _, _), VisitsFrom(_, _, _, _)
VisitsFrom(h, cs, k, leaf) ==
    IF k > Len(cs) THEN 0
    ELSE (IF IsLeaf(h, cs[k]) THEN (IF cs[k] = leaf THEN 1 ELSE 0)
          ELSE Visits(h, cs[k], leaf))
         + VisitsFrom(h, cs, k + 1, leaf)
Visits(h, node, leaf) == VisitsFrom(h, h[node].children, 1, leaf)

\* Simple.move
move(h, node, line_offset, column_offset) ==
    [i \in DOMAIN h |->
        IF IsLeaf(h, i)
        THEN [h[i] EXCEPT
                !.start_pos = <<h[i].start_pos[1] + Visits(h, node, i) * line_offset,
                                h[i].start_pos[2] + Visits(h, node, i) * column_offset>>]
        ELSE h[i]]

\* The offsets a caller moves by: a line down and two columns right, or back.
MoveOffsets == {<<1, 2>>, <<0 - 1, 0 - 2>>}

\* The line the tokenizer gave a leaf.
TokenLine(h, leaf) == PosAfter(TextBefore(h, leaf))[1]

\* node.move(line_offset, column_offset) on a node of the tree; no leaf is taken
\* above the line the tokenizer gave it, nor more than MaxMoves lines below.
Move ==
    /\ root # None
    /\ \E node \in DOMAIN heap \ Leaves(heap), off \in MoveOffsets :
          /\ heap' = move(heap, node, off[1], off[2])
          /\ \A l \in Leaves(heap) :
                /\ heap'[l].start_pos[1] - TokenLine(heap, l) <= MaxMoves
                /\ heap'[l].start_pos[1] >= TokenLine(heap, l)
          /\ ret' = Ret("move", node, off, None)
    /\ prev' = heap
    /\ UNCHANGED <<root, source>>

NextMove == Move

SpecMove == InitTree /\ [][NextMove]_vars

(***************************************************************************)
(* Import                                                                  *)
(***************************************************************************)
\* What one imported item is: a name, with or without `as z`.
ImportItems == [name : {"a", "b"}, alias : {"", "z"}]

\* a  or  a as z  (an import_as_name / dotted_as_name node)
ImportItemT(item, as_type) ==
    IF item.alias = "" THEN LeafT("Name", <<item.name>>, <<" ">>)
    ELSE NodeT("Node", as_type,
               <<LeafT("Name", <<item.name>>, <<" ">>),
                 Kw(<<"a", "s">>, <<" ">>),
                 LeafT("Name", <<item.alias>>, <<" ">>)>>)

\* One item is the item itself; several are a node with ',' between them.
ImportListT(items, as_type, list_type) ==
    IF Len(items) = 1 THEN ImportItemT(items[1], as_type)
    ELSE NodeT("Node", list_type,
               [k \in 1..(2 * Len(items) - 1) |->
                    IF k % 2 = 1 THEN ImportItemT(items[(k + 1) \div 2], as_type)
                    ELSE Op(<<",">>)])

\* import a, b as z
ImportNameT(items) ==
    NodeT("Import", "import_name",
          <<Kw(<<"i", "m", "p", "o", "r", "t">>, <<>>),
            ImportListT(items, "dotted_as_name", "dotted_as_names")>>)

\* from x import a, b as z
ImportFromT(items) ==
    NodeT("Import", "import_from",
          <<Kw(<<"f", "r", "o", "m">>, <<>>), LeafT("Name", <<"x">>, <<" ">>),
            Kw(<<"i", "m", "p", "o", "r", "t">>, <<" ">>),
            ImportListT(items, "import_as_name", "import_as_names")>>)

\* from x import *
ImportStarT ==
    NodeT("Import", "import_from",
          <<Kw(<<"f", "r", "o", "m">>, <<>>), LeafT("Name", <<"x">>, <<" ">>),
            Kw(<<"i", "m", "p", "o", "r", "t">>, <<" ">>), OpSp(<<"*">>)>>)

ImportLists == UNION {[1..n -> ImportItems] : n \in 1..MaxNames}

Imports ==
    {ImportNameT(items) : items \in ImportLists}
    \cup {ImportFromT(items) : items \in ImportLists}
    \cup {ImportStarT}

InitImport ==
    \E t \in Imports :
        LET b == BuildTree(t)
        IN /\ heap = b.heap
           /\ root = b.id
           /\ source = TokenText(b.heap, 1)
           /\ prev = b.heap
           /\ ret = NoRet

\* imp.get_defined_names()
ImportDefinedNames ==
    /\ root # None
    /\ heap[root].cls = "Import"
    /\ ret' = Ret("Import.get_defined_names", root, <<>>, ImportGetDefinedNames(heap, root))
    /\ prev' = heap
    /\ UNCHANGED <<heap, root, source>>

NextImport == ImportDefinedNames

SpecImport == InitImport /\ [][NextImport]_vars

(***************************************************************************)
(* Name.assignment_indexes                                                 *)
(***************************************************************************)
MaxTargets == 3

\* The children a loop `if child == compare` would stop at if leaves compared
\* by value.
FoundByValue(h, node, compare) ==
    {i \in 1..Len(h[node].children) :
        \/ h[node].children[i] = compare
        \/ /\ IsLeaf(h, compare) /\ IsLeaf(h, h[node].children[i])
           /\ SameValue(h, h[node].children[i], compare)}

\* for i, child in enumerate(node.children): if child == compare. The walk
\* compares a Name or a node: neither defines __eq__, and Operator.__eq__ and
\* Keyword.__eq__ of a child answer False for them, so == is identity.
Found(h, node, compare) ==
    {i \in 1..Len(h[node].children) : h[node].children[i] = compare}

\* is_node(node, 'testlist_comp') or is_node(node, 'testlist_star_expr')
IsTupleNode(h, node) == is_node(h, node, {"testlist_comp", "testlist_star_expr"})

\* A walk that looks for the name in its parent only.
MissingNearest(h, node, compare) ==
    node # None /\ IsTupleNode(h, node) /\ Found(h, node, compare) = {}

\* The for ... else of the walk: some tuple node from `node` upward does not
\* hold the object the walk came from.
RECURSIVE Missing(_, _, _)
Missing(h, node, compare) ==
    IF node = None THEN FALSE
    ELSE (IsTupleNode(h, node) /\ Found(h, node, compare) = {})
         \/ Missing(h, h[node].parent, node)

\* indexes after the walk from `node` upward: insert(0, int(i / 2)) at every
\* tuple node, so the index of an outer node comes before that of an inner one.
RECURSIVE IndexWalk(_, _, _)
IndexWalk(h, node, compare) ==
    IF node = None THEN <<>>
    ELSE IndexWalk(h, h[node].parent, node)
         \o (IF IsTupleNode(h, node) /\ Found(h, node, compare) # {}
             THEN <<((CHOOSE i \in Found(h, node, compare) :
                         \A j \in Found(h, node, compare) : i <= j) - 1) \div 2>>
             ELSE <<>>)

\* Targets of n names: x, (x, x), x, (x, x), ...
RECURSIVE TupleElem(_), TupleForest(_, _)
TupleElem(n) ==
    IF n = 1 THEN {Nm("x")}
    ELSE {ParenT(NodeT("Node", "testlist_comp", Commas(f))) : f \in TupleForest(n, n - 1)}
TupleForest(n, first) ==
    IF n = 0 THEN {<<>>}
    ELSE UNION {{<<e>> \o r : e \in TupleElem(k), r \in TupleForest(n - k, n - k)} :
                k \in 1..(IF first < n THEN first ELSE n)}

TupleTargets(n) ==
    IF n = 1 THEN {Nm("x"), ParenT(Nm("y"))}
    ELSE TupleElem(n) \cup {NodeT("Node", "testlist_star_expr", Commas(f)) :
                              f \in TupleForest(n, n - 1)}

TupleStmts ==
    {ExprStmtT(<<t, OpSp(<<"=">>), rhs>>) :
        t \in UNION {TupleTargets(n) : n \in 1..MaxTargets}, rhs \in RhsTerms}

InitIndexes ==
    \E t \in TupleStmts :
        LET b == BuildTree(t)
        IN /\ heap = b.heap
           /\ root = b.id
           /\ source = TokenText(b.heap, 1)
           /\ prev = b.heap
           /\ ret = NoRet

\* Every object is among the children of its parent: the tree as parsed.
Parsed(h) ==
    \A i \in DOMAIN h :
        h[i].parent # None => \E k \in 1..Len(h[h[i].parent].children) :
                                  h[h[i].parent].children[k] = i

\* x.parent = node, on a tree as parsed. parent is a plain attribute that
\* callers assign (as in name.parent = self); the new parent is not x nor below
\* x, so the parent chain still ends.
AssignParent ==
    /\ root # None
    /\ Parsed(heap)
    /\ \E x \in DOMAIN heap, node \in DOMAIN heap \ Leaves(heap) :
          /\ ~IsUnder(heap, node, x)
          /\ heap' = [heap EXCEPT ![x].parent = node]
          /\ ret' = Ret("parent", x, node, None)
    /\ prev' = heap
    /\ UNCHANGED <<root, source>>

\* name.assignment_indexes() on a Name of the statement.
AssignmentIndexes ==
    /\ root # None
    /\ \E name \in {i \in DOMAIN heap : heap[i].cls = "Name"} :
          ret' = IF Missing(heap, heap[name].parent, name)
                 THEN Raise("assignment_indexes", name, <<>>, "LookupError")
                 ELSE Ret("assignment_indexes", name, <<>>,
                          IndexWalk(heap, heap[name].parent, name))
    /\ prev' = heap
    /\ UNCHANGED <<heap, root, source>>

NextIndexes == AssignmentIndexes \/ AssignParent

SpecIndexes == InitIndexes /\ [][NextIndexes]_vars

(***************************************************************************)
(* StatementElement: set_next and generate_call_path                       *)
(***************************************************************************)
MaxElements == 3

\* The names of the calls, one per element.
ElementNames == <<"a", "b", "c", "d", "e">>

\* Call.__init__ / Array.__init__ (StatementElement.__init__): no next, no
\* previous; a Call has the name it was given.
NewElement(kind, name) ==
    IF kind = "Call" THEN [BlankObj EXCEPT !.cls = "Call", !.name = name]
    ELSE NewArray(LIST)

Elements(h) == {i \in DOMAIN h : h[i].cls \in {"Call", "Array"}}

\* The arena: the elements, the first of them the head, then one Name for each;
\* name.parent = self for the name of a Call.
InitPath ==
    \E kinds \in [1..MaxElements -> {"Call", "Array"}] :
        /\ heap = [k \in 1..MaxElements |-> NewElement(kinds[k], MaxElements + k)]
                  \o [k \in 1..MaxElements |->
                        [NewLeaf("Name", <<ElementNames[k]>>, <<1, 0>>, <<>>)
                            EXCEPT !.parent = IF kinds[k] = "Call" THEN k ELSE None]]
        /\ root = 1
        /\ source = <<>>
        /\ prev = heap
        /\ ret = NoRet

\* StatementElement.set_next once the recursion has come to an end: the parent
\* of call is that of the elements passed, the last element gets call as next.
set_next(h, self, call) ==
    [h EXCEPT ![call].parent = h[self].parent,
              ![ChainTail(h, self, {})].next = call,
              ![call].previous = ChainTail(h, self, {})]

\* try: yield self.name / except AttributeError: yield self
PathItem(h, e) == IF h[e].cls = "Call" THEN h[e].name ELSE e

\* StatementElement.generate_call_path on a chain that ends.
RECURSIVE generate_call_path(_, _)
generate_call_path(h, e) ==
    <<PathItem(h, e)>>
    \o (IF h[e].next = None THEN <<>> ELSE generate_call_path(h, h[e].next))

\* head.set_next(call). On a chain that comes back to an element the recursion
\* self.next.set_next(call) never reaches an element without next: it ends in
\* RecursionError, having assigned call.parent (the parent the head has) on
\* the way.
ElementSetNext ==
    /\ root # None /\ heap[root].cls \in {"Call", "Array"}
    /\ \E call \in Elements(heap) :
          IF ChainTail(heap, root, {}) = None
          THEN /\ heap' = [heap EXCEPT ![call].parent = heap[root].parent]
               /\ ret' = Raise("set_next", root, call, "RecursionError")
          ELSE /\ heap' = set_next(heap, root, call)
               /\ ret' = Ret("set_next", root, call, None)
    /\ prev' = heap
    /\ UNCHANGED <<root, source>>

\* list(head.generate_call_path()). On a chain that comes back to an element
\* the generators nest without end until the interpreter raises
\* RecursionError.
GenerateCallPath ==
    /\ root # None /\ heap[root].cls \in {"Call", "Array"}
    /\ ret' = IF ChainTail(heap, root, {}) = None
              THEN Raise("generate_call_path", root, <<>>, "RecursionError")
              ELSE Ret("generate_call_path", root, <<>>, generate_call_path(heap, root))
    /\ prev' = heap
    /\ UNCHANGED <<heap, root, source>>

NextPath == ElementSetNext \/ GenerateCallPath

SpecPath == InitPath /\ [][NextPath]_vars

(***************************************************************************)
(* Readers: queries of several callers on one tree                         *)
(***************************************************************************)
Readers == {"r1", "r2"}

\* Scope.add_import
add_import(h, scope, imp) ==
    [h EXCEPT ![scope].imports = Append(h[scope].imports, imp),
              ![imp].parent = scope]

\* Scope.get_imports and Flow.get_imports: the imports of the scope, those of
\* the scopes among its statements, and for a flow those of the segments
\* after it.
RECURSIVE get_imports(_, _)
get_imports(h, scope) ==
    h[scope].imports
    \o ConcatAll([k \in 1..Len(statements(h, scope)) |->
                    IF h[statements(h, scope)[k]].cls \in ScopeClasses
                    THEN get_imports(h, statements(h, scope)[k]) ELSE <<>>])
    \o (IF h[scope].cls = "Flow" /\ h[scope].next # None
        THEN get_imports(h, h[scope].next) ELSE <<>>)

\* A get_imports that builds its result in self.imports: every scope it visits
\* ends up holding what it returned.
AfterGetImportsShared(h, scope) ==
    [i \in DOMAIN h |->
        IF i \in Reach(h, scope, {}) THEN [h[i] EXCEPT !.imports = get_imports(h, i)]
        ELSE h[i]]

\* The tree after get_imports: i = [] + self.imports is a new list, and the
\* i += ... that follow extend that list, not self.imports.
AfterGetImports(h, scope) == h

\* The trees the readers query: a module with a function, a module with a
\* class, a tuple assignment, an if/else whose imports have been added to the
\* segments, and a call chain a.b[...] linked by set_next.
ReaderModules ==
    {NodeT("SubModule", "file_input",
           <<AssignLine(0), FuncT(0, <<AssignLine(1)>>), EndMarker>>),
     NodeT("SubModule", "file_input",
           <<ClassT(0, <<PassLine(1)>>), EndMarker>>),
     ExprStmtT(<<NodeT("Node", "testlist_star_expr",
                       <<Nm("x"), Op(<<",">>),
                         ParenT(NodeT("Node", "testlist_comp",
                                      <<Nm("x"), Op(<<",">>), Nm("x")>>))>>),
                 OpSp(<<"=">>), LeafT("Name", <<"r">>, <<" ">>)>>)}

ReaderChain ==
    LET h == BuildTree(ChainT(<<IfSegT(<<ImportLine(1)>>), ElseSegT(<<ImportLine(1)>>)>>)).heap
        imps == {i \in DOMAIN h : h[i].cls = "Import"}
        first == CHOOSE i \in imps : \A j \in imps : i <= j
        last == CHOOSE i \in imps : \A j \in imps : j <= i
    IN add_import(add_import(h, ChainHead(h), first), h[ChainHead(h)].next, last)

ReaderPath ==
    LET h == <<NewElement("Call", 4), NewElement("Call", 5), NewElement("Array", 6),
               [NewLeaf("Name", <<"a">>, <<1, 0>>, <<>>) EXCEPT !.parent = 1],
               [NewLeaf("Name", <<"b">>, <<1, 2>>, <<>>) EXCEPT !.parent = 2],
               NewLeaf("Name", <<"c">>, <<1, 4>>, <<>>)>>
    IN set_next(set_next(h, 1, 2), 1, 3)

InitReaders ==
    /\ \/ \E t \in ReaderModules :
             /\ heap = BuildTree(t).heap
             /\ root = BuildTree(t).id
       \/ /\ heap = ReaderChain
          /\ root = ChainHead(ReaderChain)
       \/ /\ heap = ReaderPath
          /\ root = 1
    /\ source = <<>>
    /\ prev = heap
    /\ ret = [r \in Readers |-> NoRet]

\* What a query returns on the tree h. q names the operation, the object it
\* is called on and its argument.
Answer(h, q) ==
    CASE q.op = "get_code" ->
            Ret(q.op, q.self, q.arg, get_code(h, q.self))
      [] q.op = "get_defined_names" ->
            IF h[q.self].cls = "ExprStmt"
            THEN Ret(q.op, q.self, q.arg, StatementGetDefinedNames(h, q.self))
            ELSE IF h[q.self].cls = "Flow"
            THEN (IF FlowNamesInternalRaises(h, q.self)
                  THEN Raise(q.op, q.self, q.arg, "AttributeError")
                  ELSE Ret(q.op, q.self, q.arg, FlowNamesInternal(h, q.self)))
            ELSE (IF GetDefinedNamesRaises(h, q.self)
                  THEN Raise(q.op, q.self, q.arg, "AttributeError")
                  ELSE Ret(q.op, q.self, q.arg, GetDefinedNames(h, q.self)))
      [] q.op = "get_statement_for_position" ->
            Ret(q.op, q.self, q.arg, get_statement_for_position(h, q.self, q.arg))
      [] q.op = "get_imports" ->
            Ret(q.op, q.self, q.arg, get_imports(h, q.self))
      [] q.op = "filter_after_position" ->
            Ret(q.op, q.self, q.arg, filter_after_position(h, q.arg.names, q.arg.position))
      [] q.op = "next_sibling" ->
            Ret(q.op, q.self, q.arg, next_sibling(h, q.self))
      [] q.op = "prev_sibling" ->
            Ret(q.op, q.self, q.arg, prev_sibling(h, q.self))
      [] q.op = "assignment_indexes" ->
            IF Missing(h, h[q.self].parent, q.self)
            THEN Raise(q.op, q.self, q.arg, "LookupError")
            ELSE Ret(q.op, q.self, q.arg, IndexWalk(h, h[q.self].parent, q.self))
      [] q.op = "generate_call_path" ->
            Ret(q.op, q.self, q.arg, generate_call_path(h, q.self))

Query(op, self, arg) == [op |-> op, self |-> self, arg |-> arg]

\* Reader r gets the answer to q; the tree is not written.
Respond(r, q) ==
    /\ ret' = [ret EXCEPT ![r] = Answer(heap, q)]
    /\ prev' = heap
    /\ UNCHANGED <<heap, root, source>>

\* The names with a parent, and the positions readers ask about: where a name
\* starts.
ParentedNames(h) == {i \in DOMAIN h : h[i].cls = "Name" /\ h[i].parent # None}
NamePositions(h) == {h[i].start_pos : i \in ParentedNames(h)}
TreeScopes(h) == {i \in Scopes(h) : h[i].cls # "Flow" \/ i = root}

ReadGetCode(r) ==
    \E i \in {root} \cup Scopes(heap) : Respond(r, Query("get_code", i, <<>>))

ReadGetDefinedNames(r) ==
    \E s \in TreeScopes(heap) \cup {i \in {root} : heap[i].cls = "ExprStmt"} :
        Respond(r, Query("get_defined_names", s, <<>>))

ReadGetStatementForPosition(r) ==
    /\ root \in Scopes(heap)
    /\ \E pos \in NamePositions(heap) :
          Respond(r, Query("get_statement_for_position", root, pos))

ReadGetImports(r) ==
    \E s \in Scopes(heap) :
        /\ ret' = [ret EXCEPT ![r] = Answer(heap, Query("get_imports", s, <<>>))]
        /\ heap' = AfterGetImports(heap, s)
        /\ prev' = heap
        /\ UNCHANGED <<root, source>>

ReadFilterAfterPosition(r) ==
    /\ heap[root].cls = "SubModule"
    /\ ~GetDefinedNamesRaises(heap, root)
    /\ \E pos \in NamePositions(heap) \cup {NoPosition} :
          Respond(r, Query("filter_after_position", None,
                           [names |-> GetDefinedNames(heap, root), position |-> pos]))

ReadNextSibling(r) ==
    \E leaf \in {i \in ParentedNames(heap) : heap[heap[i].parent].cls \notin {"Call", "Array"}} :
        Respond(r, Query("next_sibling", leaf, <<>>))

ReadPrevSibling(r) ==
    \E leaf \in {i \in ParentedNames(heap) : heap[heap[i].parent].cls \notin {"Call", "Array"}} :
        Respond(r, Query("prev_sibling", leaf, <<>>))

ReadAssignmentIndexes(r) ==
    \E name \in ParentedNames(heap) : Respond(r, Query("assignment_indexes", name, <<>>))

ReadGenerateCallPath(r) ==
    \E e \in Elements(heap) : Respond(r, Query("generate_call_path", e, <<>>))

NextReaders ==
    \E r \in Readers :
        \/ ReadGetCode(r)
        \/ ReadGetDefinedNames(r)
        \/ ReadGetStatementForPosition(r)
        \/ ReadGetImports(r)
        \/ ReadFilterAfterPosition(r)
        \/ ReadNextSibling(r)
        \/ ReadPrevSibling(r)
        \/ ReadAssignmentIndexes(r)
        \/ ReadGenerateCallPath(r)

SpecReaders == InitReaders /\ [][NextReaders]_vars

(***************************************************************************)
(* Statement.get_defined_names: what the claims read                       *)
(***************************************************************************)
Range(seq) == {seq[k] : k \in 1..Len(seq)}

\* get_defined_names() has returned on an expression statement.
StmtReturned == ret.op = "get_defined_names" /\ heap[ret.self].cls = "ExprStmt"

\* The children of that statement: [target_0, op, target_1, op, ..., rhs].
StmtKids == heap[ret.self].children
TargetPositions == {i \in 1..(Len(StmtKids) - 2) : i % 2 = 1}
OperatorPositions == {j \in 1..Len(StmtKids) : j % 2 = 0}
AllAssign ==
    Len(StmtKids) >= 3 /\ \A i \in TargetPositions : heap[StmtKids[i + 1]].value = <<"=">>

NamesUnder(h, n) == {i \in DOMAIN h : h[i].cls = "Name" /\ IsUnder(h, i, n)}

\* A (possibly nested) tuple or list display of bare names: every object below
\* it is a name, a comma or a bracket, a testlist or an atom enclosing one
\* element.
IsDisplay(h, t) ==
    \A i \in DOMAIN h : IsUnder(h, i, t) =>
        \/ h[i].cls = "Name"
        \/ h[i].cls = "Operator"
             /\ h[i].value \in {<<",">>, <<"(">>, <<")">>, <<"[">>, <<"]">>}
        \/ is_node(h, i, {"testlist_star_expr", "testlist_comp"})
        \/ is_node(h, i, {"atom"}) /\ Len(h[i].children) = 3

InSourceOrder(h, seq) ==
    \A k, l \in 1..Len(seq) : k < l => PosLess(h[seq[k]].start_pos, h[seq[l]].start_pos)

SegmentOf(i) ==
    IF \E t \in TargetPositions : IsUnder(heap, i, StmtKids[t])
    THEN CHOOSE t \in TargetPositions : IsUnder(heap, i, StmtKids[t])
    ELSE 0

\* C3: on a chained assignment [target_0, '=', target_1, '=', ..., rhs],
\* get_defined_names() returns names of every target segment, in target order,
\* and never a name of the right-hand side.
C3_ChainedAssignment ==
    (StmtReturned /\ AllAssign /\ Len(StmtKids) >= 5) =>
        /\ \A k \in 1..Len(ret.val) :
              /\ SegmentOf(ret.val[k]) # 0
              /\ ~IsUnder(heap, ret.val[k], StmtKids[Len(StmtKids)])
        /\ \A k, l \in 1..Len(ret.val) :
              k < l => SegmentOf(ret.val[k]) <= SegmentOf(ret.val[l])
        /\ \A t \in TargetPositions :
              IsDisplay(heap, StmtKids[t]) =>
                  NamesUnder(heap, StmtKids[t]) \subseteq Range(ret.val)

\* get_defined_names() has returned on x = x, x = r, 2: two segments, the second
\* a tuple, and a name on the right-hand side.
C3_Witness ==
    /\ StmtReturned /\ AllAssign /\ Len(StmtKids) = 5
    /\ heap[StmtKids[1]].cls = "Name"
    /\ is_node(heap, StmtKids[3], {"testlist_star_expr"})
    /\ NamesUnder(heap, StmtKids[5]) # {}
    /\ Len(ret.val) = 3

\* The statement has one target, a power node (a name and its trailers), and
\* the last trailer begins with the operator first.
PowerTarget(first) ==
    /\ StmtReturned /\ Len(StmtKids) = 3 /\ AllAssign
    /\ is_node(heap, StmtKids[1], {"power"})
    /\ LET cs == heap[StmtKids[1]].children
       IN /\ is_node(heap, cs[Len(cs)], {"trailer"})
          /\ heap[heap[cs[Len(cs)]].children[1]].value = first

LastTrailer == heap[StmtKids[1]].children[Len(heap[StmtKids[1]].children)]

\* C4 as claimed: get_defined_names() returns no name for an attribute target
\* (a.b = 1) and none for a subscript target (a[0] = 1).
C4_AttributeAndSubscriptBindNothing ==
    (PowerTarget(<<".">>) \/ PowerTarget(<<"[">>)) => ret.val = <<>>

\* C4 as the code has it: a subscript target (last trailer '[') yields no name;
\* an attribute target (last trailer '.') yields exactly the attribute name,
\* the name after the '.', and never the name the trailers are applied to.
C4_SubscriptBindsNothingAttributeBindsItsName ==
    /\ PowerTarget(<<"[">>) => ret.val = <<>>
    /\ PowerTarget(<<".">>) =>
          /\ ret.val = <<heap[LastTrailer].children[2]>>
          /\ heap[StmtKids[1]].children[1] \notin Range(ret.val)

\* get_defined_names() has returned on a[0].b = ...: two trailers, the last an
\* attribute access.
C4_Witness ==
    /\ PowerTarget(<<".">>)
    /\ Len(heap[StmtKids[1]].children) = 3
    /\ heap[heap[heap[StmtKids[1]].children[2]].children[1]].value = <<"[">>
    /\ Len(ret.val) = 1

\* C5: when no operator between the children of the statement is '=' (an
\* augmented assignment, a comparison, a single child), get_defined_names()
\* returns the empty list.
C5_NoAssignNoNames ==
    (StmtReturned
       /\ \A j \in OperatorPositions : heap[StmtKids[j]].value # <<"=">>) =>
        ret.val = <<>>

\* get_defined_names() has returned on an augmented assignment x += ...
C5_Witness ==
    /\ StmtReturned /\ Len(StmtKids) = 3
    /\ heap[StmtKids[1]].cls = "Name"
    /\ heap[StmtKids[2]].value = <<"+", "=">>
    /\ ret.val = <<>>

(***************************************************************************)
(* Scopes: what the claims read                                            *)
(***************************************************************************)
FilterReturned == ret.op = "filter_after_position" /\ ret.exc = ""
GeneratorCalled ==
    ret.op = "scope_names_generator" /\ heap[ret.self].cls \in {"Class", "Function"}
Yielded == UNION {Range(ret.val[k].names) : k \in 1..Len(ret.val)}

\* The pairs <<name, statement line>> of the names bound by the one-line
\* statements of a scope.
BoundByStatements(scope) ==
    UNION {{<<n, c>> : n \in {m \in DOMAIN heap :
                                 /\ heap[m].cls = "Name"
                                 /\ IsUnder(heap, m, c)
                                 /\ heap[heap[m].parent].cls \in {"ExprStmt", "Import"}}} :
           c \in {b \in Range(ScopeBody(heap, scope)) : is_node(heap, b, {"simple_stmt"})}}

\* Where the line of a statement line ends: at its newline.
LineEnd(c) == heap[heap[c].children[Len(heap[c].children)]].start_pos

HoldsKeywordStatement(scope) ==
    \E c \in Range(ScopeBody(heap, scope)) :
        /\ is_node(heap, c, {"simple_stmt"})
        /\ \E s \in Range(heap[c].children) : heap[s].cls = "KeywordStatement"

\* C6: filter_after_position(names, pos) returns names itself when pos is None,
\* and otherwise the names that start strictly before pos, each once, in the
\* order they have in names; a name starting at or after pos is dropped.
C6_FilterAfterPosition ==
    FilterReturned =>
        LET names == ret.arg.names
            pos == ret.arg.position
            K == {k \in 1..Len(names) : PosLess(heap[names[k]].start_pos, pos)}
        IN IF pos = NoPosition THEN ret.val = names
           ELSE /\ Len(ret.val) = Cardinality(K)
                /\ \A j \in 1..Len(ret.val) :
                      \E k \in K : /\ Cardinality({m \in K : m < k}) = j - 1
                                   /\ ret.val[j] = names[k]

\* A filter that kept a name and dropped the name that starts at the position.
C6_Witness ==
    /\ FilterReturned
    /\ ret.arg.position # NoPosition
    /\ ret.val # <<>>
    /\ \E n \in Range(ret.arg.names) :
          heap[n].start_pos = ret.arg.position /\ n \notin Range(ret.val)

\* C7 as stated: scope_names_generator(position) on a class or function includes
\* every name bound by a statement on an earlier line than position, and
\* excludes it whenever position lies before the end of the statement's line.
C7_ExcludedUntilEndOfLine ==
    (GeneratorCalled /\ ret.exc = "" /\ ret.arg # NoPosition) =>
        \A b \in BoundByStatements(ret.self) :
            /\ heap[b[1]].start_pos[1] < ret.arg[1] => b[1] \in Yielded
            /\ PosLess(ret.arg, LineEnd(b[2])) => b[1] \notin Yielded

\* C7 amended: scope_names_generator(position) on a class or function raises
\* AttributeError when a statement line of the scope holds a keyword statement;
\* otherwise it yields a name bound by a statement of the scope exactly when the
\* name starts strictly before position. A name of an earlier line is yielded,
\* and so is a name of position's own line that starts left of position, even
\* though the line has not ended.
C7_VisibleWhenStartsBefore ==
    GeneratorCalled =>
        IF HoldsKeywordStatement(ret.self) THEN ret.exc = "AttributeError"
        ELSE /\ ret.exc = ""
             /\ ret.arg # NoPosition =>
                   \A b \in BoundByStatements(ret.self) :
                       /\ b[1] \in Yielded <=> PosLess(heap[b[1]].start_pos, ret.arg)
                       /\ heap[b[1]].start_pos[1] < ret.arg[1] => b[1] \in Yielded

\* A position inside the line of a statement, right of the name it binds: the
\* name is yielded.
C7_Witness ==
    /\ GeneratorCalled
    /\ ret.exc = ""
    /\ ret.arg # NoPosition
    /\ \E b \in BoundByStatements(ret.self) :
          /\ heap[b[1]].start_pos[1] = ret.arg[1]
          /\ PosLess(ret.arg, LineEnd(b[2]))
          /\ b[1] \in Yielded

\* The scopes around an object, itself first, the module last.
RECURSIVE EnclosingScopes(_)
EnclosingScopes(i) ==
    IF i = None THEN <<>>
    ELSE (IF i \in Scopes(heap) THEN <<i>> ELSE <<>>) \o EnclosingScopes(heap[i].parent)

\* C8 as stated: scope_names_generator(position) yields one entry for each
\* enclosing scope, from the scope itself outward to the module.
C8_OneEntryPerEnclosingScope ==
    (ret.op = "scope_names_generator" /\ ret.exc = "") =>
        /\ Len(ret.val) = Len(EnclosingScopes(ret.self))
        /\ \A k \in 1..Len(ret.val) : ret.val[k].scope = EnclosingScopes(ret.self)[k]

\* C8 amended: scope_names_generator(position) on a class, function or flow
\* yields exactly one entry, whatever the nesting depth. Its scope is the scope
\* the generator was called on; its names are names of that scope (for a flow,
\* of the class, function or module around it) that start before position. No
\* enclosing scope gets an entry. When get_defined_names() raises, so does the
\* generator.
C8_OneEntryForTheScopeItself ==
    ret.op = "scope_names_generator" =>
        IF GetDefinedNamesRaises(heap, ret.self) THEN ret.exc = "AttributeError"
        ELSE /\ ret.exc = ""
             /\ Len(ret.val) = 1
             /\ ret.val[1].scope = ret.self
             /\ \A n \in Range(ret.val[1].names) :
                   /\ IsUnder(heap, n, NamesOwner(heap, ret.self))
                   /\ ret.arg # NoPosition => PosLess(heap[n].start_pos, ret.arg)

\* The generator of a scope two scopes below the module has run.
C8_Witness ==
    /\ ret.op = "scope_names_generator"
    /\ ret.exc = ""
    /\ Len(EnclosingScopes(ret.self)) >= 3
    /\ Len(ret.val) = 1
    /\ ret.val[1].names # <<>>

\* C9: get_defined_names() of a module, class or function returns a list that
\* holds the names bound by the scope's direct statements and the declared name
\* of every directly nested class or function, and no name from inside the body
\* of a nested class or function.
C9_DefinedNamesOfScope ==
    (ret.op = "scope.get_defined_names" /\ heap[ret.self].cls # "Flow") =>
        /\ ret.exc = ""
        /\ \A b \in BoundByStatements(ret.self) : b[1] \in Range(ret.val)
        /\ \A c \in Range(ScopeBody(heap, ret.self)) :
              heap[c].cls \in {"Function", "Class"} =>
                 /\ heap[c].children[2] \in Range(ret.val)
                 /\ \A n \in Range(ret.val) :
                       ~IsUnder(heap, n, heap[c].children[Len(heap[c].children)])

(***************************************************************************)
(* Flow chains: what the claims read                                       *)
(***************************************************************************)
\* C10: set_next(seg) on a segment of a chain, seg another segment, returns,
\* leaves every next link that was set before the call as it was, makes seg the
\* next of the segment that was the tail, and makes that segment seg's previous.
C10_SetNextAppendsAtTail ==
    (ret.op = "set_next" /\ ret.arg # ret.self /\ ChainTail(prev, ret.self, {}) # None) =>
        /\ ret.exc = ""
        /\ \A f \in Flows(prev) : prev[f].next # None => heap[f].next = prev[f].next
        /\ heap[ChainTail(prev, ret.self, {})].next = ret.arg
        /\ heap[ret.arg].previous = ChainTail(prev, ret.self, {})

\* C11: a second set_next(seg) on a chain whose tail is the segment seg that an
\* earlier set_next attached returns and leaves a chain that still ends: it
\* leads from self to a tail without next, and exactly one segment has seg as
\* its next.
C11_SetNextTwiceKeepsChain ==
    (/\ ret.op = "set_next"
     /\ ret.arg # ret.self
     /\ ChainTail(prev, ret.self, {}) = ret.arg
     /\ prev[ret.arg].previous # None) =>
        /\ ret.exc = ""
        /\ ChainTail(heap, ret.self, {}) # None
        /\ Cardinality({f \in Flows(heap) : heap[f].next = ret.arg}) = 1
        /\ heap[ret.arg].next # ret.arg

\* C12 as stated: whatever set_next calls and parent assignments were made, a
\* segment and its next have the same parent, so all segments of a chain have
\* the parent of the head.
C12_ChainHasOneParent ==
    \A f \in Flows(heap) :
        heap[f].next # None => heap[heap[f].next].parent = heap[f].parent

\* The segments whose next is f.
Before(h, f) == {i \in Flows(h) : h[i].next = f}

\* C12 amended: the parent travels forward only. `f.parent = value` gives value
\* to f and to every segment reachable from f through next, and leaves the
\* parent of every other segment, the segments before f included, as it was;
\* set_next(seg) on a chain that ends gives seg and every segment reachable from
\* seg the parent of the former tail and leaves the other parents as they were.
C12_ParentTravelsForward ==
    /\ ret.op = "parent" =>
          \A i \in Flows(heap) :
              heap[i].parent = IF i \in Reach(prev, ret.self, {}) THEN ret.arg
                               ELSE prev[i].parent
    /\ (ret.op = "set_next" /\ ChainTail(prev, ret.self, {}) # None) =>
          \A i \in Flows(heap) :
              heap[i].parent = IF i \in Reach(heap, ret.arg, {})
                               THEN prev[ChainTail(prev, ret.self, {})].parent
                               ELSE prev[i].parent

\* A parent was assigned to the second segment of a chain: the segment after it
\* would follow, the head before it keeps another parent.
C12_Witness ==
    /\ ret.op = "parent"
    /\ ret.exc = ""
    /\ \E i \in Before(prev, ret.self) :
          /\ i \notin Reach(prev, ret.self, {})
          /\ heap[i].parent # heap[ret.self].parent

(***************************************************************************)
(* Names of a flow chain: what the claims read                             *)
(***************************************************************************)
\* The names the ExprStmt and Import statements of the statement lines of the
\* body bind, the names of the input statements and the set_vars of a segment.
SegmentBindings(g) ==
    {b[1] : b \in BoundByStatements(g)}
    \cup Range(heap[g].set_vars)
    \cup UNION {{n \in DOMAIN heap : /\ heap[n].cls = "Name"
                                     /\ heap[n].parent = s
                                     /\ Len(heap[s].children) > 1
                                     /\ heap[s].children[1] = n} :
                s \in Range(heap[g].inputs)}

\* C13: get_defined_names(is_internal_call=True) on the head of a chain returns
\* a list that holds, for every segment reachable through next, the segment's
\* set_vars, the names its input statements bind and the names its body binds.
C13_HeadAggregatesChain ==
    (ret.op = "flow.get_defined_names" /\ ret.self = root) =>
        /\ ret.exc = ""
        /\ \A g \in Reach(heap, ret.self, {}) : SegmentBindings(g) \subseteq Range(ret.val)

(***************************************************************************)
(* Parameters: what the claims read                                        *)
(***************************************************************************)
\* What stands between the parentheses of the function: the children of the
\* typedargslist, or the one child there is.
Between ==
    LET all == heap[heap[root].children[3]].children
        inner == SubSeq(all, 2, Len(all) - 1)
    IN IF Len(inner) = 1 /\ heap[inner[1]].type = "typedargslist"
       THEN heap[inner[1]].children ELSE inner

IsComma(i) == heap[i].cls = "Operator" /\ heap[i].value = <<",">>
CommasAt == {k \in 1..Len(Between) : IsComma(Between[k])}

\* The parameters as the commas separate them: parameter k stands between comma
\* k - 1 and comma k.
NumParams ==
    IF Between = <<>> THEN 0
    ELSE IF IsComma(Between[Len(Between)]) THEN Cardinality(CommasAt)
    ELSE Cardinality(CommasAt) + 1
ParamFrom(k) ==
    IF k = 1 THEN 1
    ELSE 1 + CHOOSE j \in CommasAt : Cardinality({i \in CommasAt : i < j}) = k - 2
ParamTo(k) ==
    IF k > Cardinality(CommasAt) THEN Len(Between)
    ELSE (CHOOSE j \in CommasAt : Cardinality({i \in CommasAt : i < j}) = k - 1) - 1
ParamPart(k) == SubSeq(Between, ParamFrom(k), ParamTo(k))

StarsOf(part) ==
    IF heap[part[1]].cls = "Operator" /\ heap[part[1]].value \in {<<"*">>, <<"*", "*">>}
    THEN Len(heap[part[1]].value) ELSE 0
DefaultOf(part) ==
    IF \E j \in 1..(Len(part) - 1) : heap[part[j]].value = <<"=">>
    THEN part[Len(part)] ELSE None
NamedOf(part) == part[1 + (IF StarsOf(part) > 0 THEN 1 ELSE 0)]

\* C14: function.params holds one Param per parameter of the list, in source
\* order; each has the stars of its prefix (0, 1 or 2), the expression after
\* its '=' as default or None, and the name or tfpdef of the parameter; and
\* position_nr of a Param is its index in params.
C14_OneParamPerParameter ==
    /\ ret.op = "params" =>
          /\ Len(ret.val) = NumParams
          /\ \A k \in 1..Len(ret.val) :
                /\ heap[ret.val[k]].cls = "Param"
                /\ heap[ret.val[k]].parent = root
                /\ heap[ret.val[k]].stars = StarsOf(ParamPart(k))
                /\ heap[ret.val[k]].default = DefaultOf(ParamPart(k))
                /\ heap[ret.val[k]].tfpdef = NamedOf(ParamPart(k))
    /\ ret.op = "position_nr" => heap[root].params[ret.val + 1] = ret.self

\* def f(a, b=1, *r, **k): four params, stars 0, 0, 1, 2, the default of the
\* second the literal 1.
C14_Witness ==
    /\ ret.op = "params"
    /\ Len(ret.val) = 4
    /\ [k \in 1..4 |-> heap[ret.val[k]].stars] = <<0, 0, 1, 2>>
    /\ heap[ret.val[2]].default # None
    /\ heap[heap[ret.val[2]].default].value = <<"1">>
    /\ heap[ret.val[1]].default = None

(***************************************************************************)
(* Array: what the claims read                                             *)
(***************************************************************************)
\* C15: whatever add_statement calls were made, iteration and index access
\* raise on an Array whose type is DICT, items() raises on an Array whose type
\* is not DICT, and an Array that was given a key has type DICT.
C15_DictDuality ==
    /\ (ret.op \in {"__iter__", "__getitem__"} /\ heap[ret.self].type = DICT) =>
          ret.exc = "TypeError"
    /\ (ret.op = "items" /\ heap[ret.self].type # DICT) => ret.exc = "TypeError"
    /\ \A a \in {i \in DOMAIN heap : heap[i].cls = "Array"} :
          heap[a].keys # <<>> => heap[a].type = DICT

\* Iteration raised on an array that holds a key and a value.
C15_Witness ==
    /\ ret.op = "__iter__"
    /\ ret.exc = "TypeError"
    /\ heap[ret.self].keys # <<>>
    /\ heap[ret.self].values # <<>>

(***************************************************************************)
(* Statement for a position: what the claims read                          *)
(***************************************************************************)
\* The statements of a scope and of the scopes below it: the statements of its
\* statement lines at any depth, and the inputs of flows.
StatementsBelow(scope) ==
    {st \in DOMAIN heap :
        /\ IsUnder(heap, st, scope)
        /\ st # scope
        /\ \/ /\ heap[st].cls \in StatementClasses
              /\ is_node(heap, heap[st].parent, {"simple_stmt"})
           \/ \E f \in DOMAIN heap : st \in Range(heap[f].inputs)}

\* C16: get_statement_for_position(pos) returns None when no statement of the
\* scope or of its subscopes contains pos, and otherwise a statement s of them
\* with s.start_pos <= pos <= s.end_pos.
C16_StatementContainingPos ==
    ret.op = "get_statement_for_position" =>
        IF \E st \in StatementsBelow(ret.self) : Contains(heap, st, ret.arg)
        THEN /\ ret.val \in StatementsBelow(ret.self)
             /\ Contains(heap, ret.val, ret.arg)
        ELSE ret.val = None

(***************************************************************************)
(* Siblings: what the claims read                                          *)
(***************************************************************************)
SiblingsOfSelf == heap[heap[ret.self].parent].children

\* C17: for a leaf that is child i of its parent, next_sibling() returns child
\* i + 1, or None when i is the last, and prev_sibling() returns child i - 1,
\* or None when i is the first; the leaf is found by identity, so with equal
\* children in the parent it is the neighbour of the leaf itself that comes back.
C17_SiblingsByIdentity ==
    (ret.op \in {"next_sibling", "prev_sibling"} /\ heap[ret.self].parent # None) =>
        /\ ret.exc = ""
        /\ \A i \in 1..Len(SiblingsOfSelf) :
              SiblingsOfSelf[i] = ret.self =>
                 /\ ret.op = "next_sibling" =>
                       ret.val = IF i = Len(SiblingsOfSelf) THEN None
                                 ELSE SiblingsOfSelf[i + 1]
                 /\ ret.op = "prev_sibling" =>
                       ret.val = IF i = 1 THEN None ELSE SiblingsOfSelf[i - 1]

\* next_sibling() of the second of two equal operators: the child after it, not
\* the child after the first.
C17_Witness ==
    /\ ret.op = "next_sibling"
    /\ ret.exc = ""
    /\ \E i \in 1..Len(SiblingsOfSelf) : \E j \in 1..(i - 1) :
          /\ SiblingsOfSelf[i] = ret.self
          /\ heap[ret.self].cls = "Operator"
          /\ heap[SiblingsOfSelf[j]].cls = "Operator"
          /\ heap[SiblingsOfSelf[j]].value = heap[ret.self].value
          /\ ret.val # SiblingsOfSelf[j + 1]

(***************************************************************************)
(* move and positions: what the claims read                                *)
(***************************************************************************)
Shifted(pos, off) == <<pos[1] + off[1], pos[2] + off[2]>>

\* C18: node.move(line_delta, col_delta) adds the deltas once to the start_pos
\* of every leaf below node and changes nothing else: not the leaves outside,
\* no value, prefix, children or parent. So get_code() of every object is what
\* it was, and move with the negated deltas brings every position back.
C18_MoveShiftsSubtreeOnly ==
    ret.op = "move" =>
        /\ DOMAIN heap = DOMAIN prev
        /\ \A i \in DOMAIN heap :
              /\ [heap[i] EXCEPT !.start_pos = prev[i].start_pos] = prev[i]
              /\ heap[i].start_pos =
                    IF IsLeaf(prev, i) /\ IsUnder(prev, i, ret.self)
                    THEN Shifted(prev[i].start_pos, ret.arg)
                    ELSE prev[i].start_pos
              /\ get_code(heap, i) = get_code(prev, i)
        /\ move(heap, ret.self, 0 - ret.arg[1], 0 - ret.arg[2]) = prev

\* A node below the root was moved: leaves below it went along, a leaf outside
\* it stayed.
C18_Witness ==
    /\ ret.op = "move"
    /\ ret.self # root
    /\ \E i \in Leaves(heap) : IsUnder(heap, i, ret.self) /\ heap[i].start_pos # prev[i].start_pos
    /\ \E i \in Leaves(heap) : ~IsUnder(heap, i, ret.self) /\ heap[i].start_pos = prev[i].start_pos

(***************************************************************************)
(* Import.get_defined_names: what the claims read                          *)
(***************************************************************************)
\* The imported items of the statement, in order: what follows `import`, with
\* the list node opened and the commas left out.
ImportedItems ==
    LET last == heap[ret.self].children[Len(heap[ret.self].children)]
    IN IF is_node(heap, last, {"dotted_as_names", "import_as_names"})
       THEN SelectSeq(heap[last].children, LAMBDA x : ~EqStr(heap, x, <<",">>))
       ELSE <<last>>

\* The name an item binds: its alias if it has one, no name for `*`.
ItemBinds(x) ==
    IF is_node(heap, x, {"dotted_as_name", "import_as_name"})
    THEN <<heap[x].children[Len(heap[x].children)]>>
    ELSE IF EqStr(heap, x, <<"*">>) THEN <<>>
    ELSE <<x>>

\* C19: Import.get_defined_names() returns, for every imported item, its alias
\* if it has one and the imported name otherwise (the one name of a `from`
\* import, every name of `import a, b`), and nothing for `from x import *`.
C19_ImportBindsAliasOrName ==
    ret.op = "Import.get_defined_names" =>
        ret.val = ConcatAll([k \in 1..Len(ImportedItems) |-> ItemBinds(ImportedItems[k])])

\* Positions after construction and moves.
Nodes == DOMAIN heap \ Leaves(heap)
LeavesUnder(n) == {l \in Leaves(heap) : IsUnder(heap, l, n)}
LastChild(n) == heap[n].children[Len(heap[n].children)]

\* How far a leaf is from where the tokenizer put it.
Displacement(l) ==
    <<heap[l].start_pos[1] - PosAfter(TextBefore(heap, l))[1],
      heap[l].start_pos[2] - PosAfter(TextBefore(heap, l))[2]>>

\* The leaves below n have all been moved by the same offsets.
MovedTogether(n) ==
    \A a, b \in LeavesUnder(n) : Displacement(a) = Displacement(b)

\* start_pos and end_pos of a node are those of its first and last child.
EndsAtChildren(n) ==
    /\ start_pos(heap, n) = start_pos(heap, heap[n].children[1])
    /\ end_pos(heap, n) = end_pos(heap, LastChild(n))

\* Every leaf below n lies in [n.start_pos, n.end_pos], and of two nodes among
\* the children of n the earlier ends before the later starts.
HoldsItsLeaves(n) ==
    /\ \A l \in LeavesUnder(n) :
          /\ PosLeq(start_pos(heap, n), heap[l].start_pos)
          /\ PosLeq(heap[l].start_pos, end_pos(heap, n))
    /\ \A j, k \in 1..Len(heap[n].children) :
          (j < k /\ heap[n].children[j] \in Nodes /\ heap[n].children[k] \in Nodes)
          => PosLeq(end_pos(heap, heap[n].children[j]), start_pos(heap, heap[n].children[k]))

\* C20 as stated: after building a tree from leaves in token order and moving
\* any of its nodes, every node starts where its first child starts, ends where
\* its last child ends, holds the positions of all leaves below it, and its
\* sub-nodes do not overlap.
C20_PositionsNestAfterAnyMove ==
    root # None => \A n \in Nodes : EndsAtChildren(n) /\ HoldsItsLeaves(n)

\* C20, amended: every node starts where its first child starts and ends where
\* its last child ends; it holds the positions of the leaves below it, and its
\* sub-nodes do not overlap, as long as all leaves below it have been moved
\* by the same offsets (moves of the node itself or of a node above it).
C20_PositionsNestWhenMovedTogether ==
    root # None =>
        \A n \in Nodes : EndsAtChildren(n) /\ (MovedTogether(n) => HoldsItsLeaves(n))

\* A node below the root holding a node has been moved as a whole, away from
\* the tokenizer's positions, while the leaves of the root are no longer
\* together.
C20_Witness ==
    /\ ret.op = "move"
    /\ ~MovedTogether(root)
    /\ \E n \in Nodes :
          /\ MovedTogether(n)
          /\ Cardinality(LeavesUnder(n)) > 1
          /\ \A l \in LeavesUnder(n) : Displacement(l) # <<0, 0>>

(***************************************************************************)
(* Name.assignment_indexes: what the claims read                           *)
(***************************************************************************)
\* The tuple nodes above the name, read off the parent references.
TupleAncestors(name) ==
    {n \in DOMAIN heap : n # name /\ IsTupleNode(heap, n) /\ IsUnder(heap, name, n)}

\* The tuple ancestor with k - 1 tuple ancestors above it.
TupleAncestorAt(name, k) ==
    CHOOSE n \in TupleAncestors(name) :
        Cardinality({m \in TupleAncestors(name) : m # n /\ IsUnder(heap, n, m)}) = k - 1

\* The place (from 0) among the children of n of the branch holding the name:
\* the child of n on the name's parent chain.
BranchPlace(name, n) ==
    (CHOOSE k \in 1..Len(heap[n].children) :
        /\ IsUnder(heap, name, heap[n].children[k])
        /\ heap[heap[n].children[k]].parent = n) - 1

\* C21: assignment_indexes() returns one integer per testlist_comp or
\* testlist_star_expr above the name, the outermost first: the place of the
\* branch holding the name among that node's children, halved and rounded
\* down. Without such a node above the name the list is empty.
C21_IndexPerTupleAncestor ==
    (ret.op = "assignment_indexes" /\ ret.exc = "") =>
        /\ Len(ret.val) = Cardinality(TupleAncestors(ret.self))
        /\ \A k \in 1..Len(ret.val) :
              ret.val[k] = BranchPlace(ret.self, TupleAncestorAt(ret.self, k)) \div 2

\* The call on y of x, (y, z) = ... has returned [1, 0].
C21_Witness ==
    /\ ret.op = "assignment_indexes" /\ ret.exc = ""
    /\ ret.val = <<1, 0>>
    /\ Parsed(heap)

\* Some tuple node on the parent chain of the name does not hold the object
\* whose parent reference leads to it.
BrokenAbove(name) ==
    \E n \in TupleAncestors(name), c \in DOMAIN heap :
        /\ IsUnder(heap, name, c)
        /\ heap[c].parent = n
        /\ c \notin Range(heap[n].children)

\* C22: when a tuple node on the name's parent chain does not have among its
\* children the object the walk reached it from, assignment_indexes() raises
\* LookupError, returns no index list, and leaves the tree as it was.
C22_LookupErrorWhenBroken ==
    (ret.op = "assignment_indexes" /\ BrokenAbove(ret.self)) =>
        /\ ret.exc = "LookupError"
        /\ ret.val = <<>>
        /\ heap = prev

\* The call has raised for a name whose own parent holds it, the break being
\* further up.
C22_Witness ==
    /\ ret.op = "assignment_indexes" /\ ret.exc = "LookupError"
    /\ BrokenAbove(ret.self)
    /\ ret.self \in Range(heap[heap[ret.self].parent].children)

(***************************************************************************)
(* generate_call_path: what the claims read                                *)
(***************************************************************************)
\* The elements met by following next from the head.
InChain(h) == Reach(h, root, {})

\* What the path holds for an element: the name of a Call, an Array itself.
ItemFor(e) == IF heap[e].cls = "Call" THEN heap[e].name ELSE e

\* C23: after any set_next calls on the head, generate_call_path() yields one
\* item per element of the chain, in the order the elements were appended: each
\* set_next(call) adds the item of call at the end of what the path was before,
\* and the path is finite and the same at every call.
C23_PathInAppendOrder ==
    /\ ret.op = "set_next" =>
          /\ ret.exc = ""
          /\ ChainTail(heap, root, {}) # None
          /\ generate_call_path(heap, root)
                = generate_call_path(prev, root) \o <<ItemFor(ret.arg)>>
    /\ ret.op = "generate_call_path" =>
          /\ ret.exc = ""
          /\ Len(ret.val) = Cardinality(InChain(heap))
          /\ ret.val = generate_call_path(heap, root)

(***************************************************************************)
(* Flow chains: termination                                                *)
(***************************************************************************)
\* C25: after any set_next calls among the segments, with any segment as the
\* argument, following next from any segment comes to a segment without next:
\* no chain holds a cycle, and no call (set_next, the parent setter) runs into
\* the recursion limit.
C25_ChainNeverCycles ==
    /\ \A f \in Flows(heap) : ChainTail(heap, f, {}) # None
    /\ ret.exc # "RecursionError"

(***************************************************************************)
(* Readers: what the claims read                                           *)
(***************************************************************************)
QueryOps ==
    {"get_code", "get_defined_names", "get_statement_for_position", "get_imports",
     "filter_after_position", "next_sibling", "prev_sibling", "assignment_indexes",
     "generate_call_path"}

\* What the tree is to a reader: value, prefix and start_pos of the leaves, and
\* children, parent, next and previous of every object.
TreeOf(h) ==
    [i \in DOMAIN h |->
        [value |-> h[i].value, prefix |-> h[i].prefix, start_pos |-> h[i].start_pos,
         children |-> h[i].children, parent |-> h[i].parent,
         next |-> h[i].next, previous |-> h[i].previous]]

====
